---- MODULE Spec2Model ----
(***************************************************************************)
(* Verification model of the secp256k1 / BIP-340 Schnorr engine of stygos  *)
(* (examples/schnorr) and of its command dispatcher.                       *)
(*                                                                         *)
(* Scaling.  TLC integers are 32 bits wide, so the 256-bit curve is        *)
(* replaced by a small curve of the same shape: y^2 = x^3 + 7 over F_p     *)
(* with p = 3 (mod 4), p = 1 (mod 3) and a group of prime order n < p, so  *)
(* that, as on secp256k1, no point has x = 0 or y = 0 and some x have both *)
(* x and p - x on the curve (p = 79, n = 67, G = (1, 18)).  A              *)
(* 32-byte big-endian field of the wire format becomes one "word" in       *)
(* 0..MaxWord, with MaxWord > P > N as 2^256 - 1 > p > n.  A byte slice is *)
(* a sequence of words; "64 bytes" is a sequence of length 2.              *)
(***************************************************************************)
EXTENDS Integers, Sequences, FiniteSets, TLC

\* ------------------------------------------------------------------ bounds
\* largest value of a 32-byte word (2^256 - 1 in the source)
MaxWord == 80
\* messages are 0..MaxMsg
MaxMsg == 3
\* engine calls made one after the other
MaxCalls == 2

\* the uint64 values converted: 0..MaxValue and a few larger ones
MaxValue == 120

\* entries kept in Logs before the test clears them
MaxLogs == 2

Word == 0..MaxWord
Msgs == 0..MaxMsg

\* ------------------------------------------------- secp256k1 constants
\* Field modulus p
P == 79
\* Curve order n
N == 67
\* Curve parameter b
B == 7
\* Generator point G
GX == 1
GY == 18
\* (p+1)/4 for square root in F_p
SQRT_EXP == (P + 1) \div 4

\* a nil *big.Int
Nil == -1

\* Commands for the contract
CMD_VERIFY == 0
CMD_ADAPTOR_VERIFY == 1
CMD_EXTRACT == 2
CMD_LIFT_X == 3
CMD_POINT_ADD == 4
CMD_POINT_MUL == 5

\* ------------------------------------------------------ math/big helpers
\* big.Int.Exp(x, y, m) = x^y mod m
RECURSIVE Exp(_, _, _)
Exp(x, y, m) ==
  IF y = 0 THEN 1 % m
  ELSE IF y % 2 = 1 THEN (x * Exp(x, y - 1, m)) % m
  ELSE Exp((x * x) % m, y \div 2, m)

\* big.Int.ModInverse(g, n): the inverse of g in Z/nZ, or nil when g and n
\* are not relatively prime
\* the element of a one-element set.  A local such as sG := mul(G, s) is
\* bound as  Only({body : sG \in {mul(G, s)}}) : the call is evaluated once
\* and body reads its value, as the Go code reads its local variable.
Only(S) == CHOOSE v \in S : TRUE

Inverse(g, n) ==
  IF \E z \in 1..(n - 1) : (g * z) % n = 1
  THEN CHOOSE z \in 1..(n - 1) : (g * z) % n = 1
  ELSE Nil

\* the inverses modulo P, tabulated once: every call site passes n = P
InverseModP == [g \in 0..(P - 1) |-> Inverse(g, P)]

ModInverse(g, n) == IF n = P THEN InverseModP[g % P] ELSE Inverse(g % n, n)

\* ------------------------------------------------------------ CurveGroup
Affine(x, y) == [X |-> x, Y |-> y]

\* the value a faulted computation leaves behind: a nil pointer was
\* dereferenced and the call never returns a point
Fault == [X |-> Nil, Y |-> Nil]

Infinity == Affine(0, 0)

\* isInfinity checks if a point is at infinity
isInfinity(p) == p.X = 0 /\ p.Y = 0

\* isOnCurve checks if a point is on the curve
isOnCurve(p) ==
  IF isInfinity(p) THEN TRUE
  ELSE LET yy  == (p.Y * p.Y) % P
           xx  == (p.X * p.X) % P
           xxx == (xx * p.X) % P
           rhs == (xxx + B) % P
       IN yy = rhs

\* mutant of double: the tangent's slope is 2x^2/(2y)
doubleWrongSlope(p) ==
  IF isInfinity(p) \/ p.Y = 0 THEN Infinity
  ELSE LET x2   == (p.X * p.X) % P
           s0   == (2 * x2) % P
           twoY == (2 * p.Y) % P
           inv  == ModInverse(twoY, P)
       IN IF inv = Nil THEN Fault
          ELSE LET s  == (s0 * inv) % P
                   s2 == (s * s) % P
                   xr == (s2 - 2 * p.X) % P
                   yr == ((p.X - xr) * s - p.Y) % P
               IN Affine(xr, yr)

\* double doubles a point
double(p) ==
  IF isInfinity(p) \/ p.Y = 0 THEN Infinity
  ELSE LET x2   == (p.X * p.X) % P
           s0   == (3 * x2) % P
           twoY == (2 * p.Y) % P
           inv  == ModInverse(twoY, P)
       IN IF inv = Nil THEN Fault
          ELSE LET s  == (s0 * inv) % P
                   s2 == (s * s) % P
                   xr == (s2 - 2 * p.X) % P
                   yr == ((p.X - xr) * s - p.Y) % P
               IN Affine(xr, yr)

\* the chord through p1 and p2, as add computes it when p1.X # p2.X
chord(p1, p2) ==
  LET dx  == (p2.X - p1.X) % P
      dy  == (p2.Y - p1.Y) % P
      inv == ModInverse(dx, P)
  IN IF inv = Nil THEN Fault
     ELSE LET s  == (dy * inv) % P
              s2 == (s * s) % P
              xr == (s2 - (p1.X + p2.X)) % P
              yr == ((p1.X - xr) * s - p1.Y) % P
          IN Affine(xr, yr)

\* mutant of add: equal x always gives Infinity, p1 = p2 included
addEqualXInfinity(p1, p2) ==
  IF isInfinity(p1) THEN p2
  ELSE IF isInfinity(p2) THEN p1
  ELSE IF p1.X = p2.X THEN Infinity
  ELSE chord(p1, p2)

\* mutant of add: p2 is not tested for Infinity
addNoRightIdentity(p1, p2) ==
  IF isInfinity(p1) THEN p2
  ELSE IF p1.X = p2.X
       THEN IF p1.Y = 0 \/ (p1.Y + p2.Y) % P = 0
            THEN Infinity
            ELSE double(p1)
       ELSE chord(p1, p2)

\* mutant of add: for equal x the sum of the y is not tested
addNoInverseTest(p1, p2) ==
  IF isInfinity(p1) THEN p2
  ELSE IF isInfinity(p2) THEN p1
  ELSE IF p1.X = p2.X
       THEN IF p1.Y = 0 THEN Infinity ELSE double(p1)
       ELSE chord(p1, p2)

\* mutant of add: the y of the chord's third point is taken from p2.X
addChordFromP2(p1, p2) ==
  IF isInfinity(p1) THEN p2
  ELSE IF isInfinity(p2) THEN p1
  ELSE IF p1.X = p2.X
       THEN IF p1.Y = 0 \/ (p1.Y + p2.Y) % P = 0
            THEN Infinity
            ELSE double(p1)
       ELSE LET dx  == (p2.X - p1.X) % P
                dy  == (p2.Y - p1.Y) % P
                inv == ModInverse(dx, P)
            IN IF inv = Nil THEN Fault
               ELSE LET s  == (dy * inv) % P
                        s2 == (s * s) % P
                        xr == (s2 - (p1.X + p2.X)) % P
                        yr == ((p2.X - xr) * s - p1.Y) % P
                    IN Affine(xr, yr)

\* add adds two points
add(p1, p2) ==
  IF isInfinity(p1) THEN p2
  ELSE IF isInfinity(p2) THEN p1
  ELSE IF p1.X = p2.X
       THEN IF p1.Y = 0 \/ (p1.Y + p2.Y) % P = 0
            THEN Infinity
            ELSE double(p1)
       ELSE LET dx  == (p2.X - p1.X) % P
                dy  == (p2.Y - p1.Y) % P
                inv == ModInverse(dx, P)
            IN IF inv = Nil THEN Fault
               ELSE LET s  == (dy * inv) % P
                        s2 == (s * s) % P
                        xr == (s2 - (p1.X + p2.X)) % P
                        yr == ((p1.X - xr) * s - p1.Y) % P
                    IN Affine(xr, yr)

\* mutant of mulLoop: k is shifted by two bits in each iteration
RECURSIVE mulLoopShiftsTwo(_, _, _, _)
mulLoopShiftsTwo(result, addend, k, iters) ==
  IF k > 0
  THEN Only({
         IF r1 = Fault THEN [point |-> Fault, k |-> k, iters |-> iters]
         ELSE Only({
                IF a1 = Fault THEN [point |-> Fault, k |-> k, iters |-> iters]
                ELSE mulLoopShiftsTwo(r1, a1, k \div 4, iters + 1)
                : a1 \in {double(addend)} })
         : r1 \in {IF k % 2 = 1 THEN add(result, addend) ELSE result} })
  ELSE [point |-> result, k |-> k, iters |-> iters]

\* the loop of mul: one iteration per bit of k, least significant first;
\* k is shifted in place, so it is 0 when the loop ends.  iters counts the
\* iterations.
RECURSIVE mulLoop(_, _, _, _)
mulLoop(result, addend, k, iters) ==
  IF k > 0
  THEN Only({
         IF r1 = Fault THEN [point |-> Fault, k |-> k, iters |-> iters]
         ELSE Only({
                IF a1 = Fault THEN [point |-> Fault, k |-> k, iters |-> iters]
                ELSE mulLoop(r1, a1, k \div 2, iters + 1)
                : a1 \in {double(addend)} })
         : r1 \in {IF k % 2 = 1 THEN add(result, addend) ELSE result} })
  ELSE [point |-> result, k |-> k, iters |-> iters]

\* mutant of mul: result starts at p
mulStartAtP(p, k) == mulLoop(p, p, k, 0).point

\* mul multiplies a point by a scalar
mul(p, k) == mulLoop(Infinity, p, k, 0).point

\* mutant of liftXEvenY: an odd y is returned as it is
liftXOddY(x) ==
  IF x >= P THEN [pt |-> Fault, err |-> TRUE]
  ELSE LET c == (x * x * x + B) % P
       IN Only({
            IF (y * y) % P # c THEN [pt |-> Fault, err |-> TRUE]
            ELSE [pt |-> Affine(x, y), err |-> FALSE]
            : y \in {Exp(c, SQRT_EXP, P)} })

\* mutant of liftXEvenY: y^2 is not compared with c
liftXUnverified(x) ==
  IF x >= P THEN [pt |-> Fault, err |-> TRUE]
  ELSE LET c == (x * x * x + B) % P
       IN Only({
            [pt |-> Affine(x, IF y % 2 = 1 THEN P - y ELSE y), err |-> FALSE]
            : y \in {Exp(c, SQRT_EXP, P)} })

\* mutant of liftXEvenY: x is not compared with P
liftXAnyX(x) ==
  LET c == (x * x * x + B) % P
  IN Only({
       IF (y * y) % P # c THEN [pt |-> Fault, err |-> TRUE]
       ELSE [pt |-> Affine(x, IF y % 2 = 1 THEN P - y ELSE y), err |-> FALSE]
       : y \in {Exp(c, SQRT_EXP, P)} })

\* ------------------------------------------------------------- PointLift
\* liftXEvenY lifts x-coordinate to even-Y point; err is TRUE when it
\* returns ErrLiftXFailed
liftXEvenY(x) ==
  IF x >= P THEN [pt |-> Fault, err |-> TRUE]
  ELSE LET c == (x * x * x + B) % P
       IN Only({
            IF (y * y) % P # c THEN [pt |-> Fault, err |-> TRUE]
            ELSE [pt |-> Affine(x, IF y % 2 = 1 THEN P - y ELSE y), err |-> FALSE]
            : y \in {Exp(c, SQRT_EXP, P)} })

\* --------------------------------------------------------- ChallengeHash
\* challengeBIP340 computes BIP-340 challenge hash.  SHA-256 is modelled by
\* a fixed mixing function of the three inputs onto the whole word range:
\* deterministic, not the identity, and every digest (in particular those
\* that are 0 mod N) occurs for some input.
challengeBIP340(r, pkX, msg) ==
  (r * r + 5 * r + 11 * pkX + 17 * msg + 3) % (MaxWord + 1)

\* ----------------------------------------------------- SignatureVerifier
\* mutant of outOfRange: the comparison of s with N is missing
outOfRangeNoS(r, s) == r >= P

\* the range check of verify and adaptorVerify on the parsed signature
outOfRange(r, s) == r >= P \/ s >= N

\* the negation written inline in verify and adaptorVerify:
\* Affine{X: eP.X, Y: new(big.Int).Sub(P, eP.Y)}
negate(eP) == Affine(eP.X, P - eP.Y)

\* Require even Y and x(R) == r
acceptR(R, r) == R.Y % 2 = 0 /\ R.X = r

\* verify verifies a standard BIP-340 signature.  ret is the boolean it
\* returns; fault is TRUE when it panics instead of returning.
verifyRun(msg, sig, pkX) ==
  IF Len(sig) # 2 \/ Len(pkX) # 1 THEN [ret |-> FALSE, fault |-> FALSE]
  ELSE LET r == sig[1]
           s == sig[2]
           e == challengeBIP340(r, pkX[1], msg) % N
       IN IF outOfRange(r, s) THEN [ret |-> FALSE, fault |-> FALSE]
          ELSE Only({
            IF pk.err THEN [ret |-> FALSE, fault |-> FALSE]
            ELSE Only({ Only({ Only({
                   IF R = Fault THEN [ret |-> FALSE, fault |-> TRUE]
                   ELSE IF isInfinity(R) THEN [ret |-> FALSE, fault |-> FALSE]
                   ELSE [ret |-> acceptR(R, r), fault |-> FALSE]
                   : R  \in {IF eP = Fault THEN Fault ELSE add(sG, negate(eP))} })
                   : eP \in {IF sG = Fault THEN Fault ELSE mul(pk.pt, e)} })
                   : sG \in {mul(Affine(GX, GY), s)} })
            : pk \in {liftXEvenY(pkX[1])} })

verify(msg, sig, pkX) == verifyRun(msg, sig, pkX).ret

\* the point values verify computes or passes to mul and add, in the order
\* of its statements: P, G, sG, eP, negEP and R (none after a return, and
\* none after a panic)
verifyPoints(msg, sig, pkX) ==
  IF Len(sig) # 2 \/ Len(pkX) # 1 THEN <<>>
  ELSE LET r == sig[1]
           s == sig[2]
           e == challengeBIP340(r, pkX[1], msg) % N
       IN IF outOfRange(r, s) THEN <<>>
          ELSE Only({
            IF pk.err THEN <<>>
            ELSE Only({ Only({ Only({
                   <<pk.pt, Affine(GX, GY)>>
                   \o (IF sG = Fault THEN <<>> ELSE <<sG>>)
                   \o (IF eP = Fault THEN <<>> ELSE <<eP, negate(eP)>>)
                   \o (IF R = Fault THEN <<>> ELSE <<R>>)
                   : R  \in {IF eP = Fault THEN Fault ELSE add(sG, negate(eP))} })
                   : eP \in {IF sG = Fault THEN Fault ELSE mul(pk.pt, e)} })
                   : sG \in {mul(Affine(GX, GY), s)} })
            : pk \in {liftXEvenY(pkX[1])} })

\* ---------------------------------------------------------- AdaptorEngine
\* adaptorVerify verifies an adaptor signature.  ret is the boolean it
\* returns; fault is TRUE when it panics instead of returning.
adaptorVerifyRun(msg, sig, pkX, T) ==
  LET no    == [ret |-> FALSE, fault |-> FALSE]
      panic == [ret |-> FALSE, fault |-> TRUE]
  IN
  IF Len(sig) # 2 \/ Len(pkX) # 1 THEN no
  ELSE LET r      == sig[1]
           sPrime == sig[2]
       IN IF outOfRange(r, sPrime) THEN no
          ELSE Only({
            IF pk.err THEN no
            ELSE IF ~isOnCurve(T) THEN no
            ELSE Only({
              IF R.err THEN no
              ELSE Only({
                IF Rp = Fault \/ Rp.X > MaxWord THEN panic
                ELSE LET e == challengeBIP340(Rp.X, pkX[1], msg) % N
                     IN Only({ Only({ Only({
                          IF rhs = Fault THEN panic
                          ELSE IF isInfinity(sG) \/ isInfinity(rhs) THEN no
                          ELSE Only({
                                 IF Rstar = Fault THEN panic
                                 ELSE IF isInfinity(Rstar) THEN no
                                 ELSE [ret |-> acceptR(Rstar, r), fault |-> FALSE]
                                 : Rstar \in {add(sG, negate(eP))} })
                          : rhs \in {IF eP = Fault THEN Fault ELSE add(R.pt, eP)} })
                          : eP  \in {IF sG = Fault THEN Fault ELSE mul(pk.pt, e)} })
                          : sG  \in {mul(Affine(GX, GY), sPrime)} })
                : Rp \in {add(R.pt, T)} })
              : R \in {liftXEvenY(r)} })
            : pk \in {liftXEvenY(pkX[1])} })

adaptorVerify(msg, sig, pkX, T) == adaptorVerifyRun(msg, sig, pkX, T).ret

\* mutant of extract: the difference is not wrapped by N when s < s'
extractNoWrap(sig, adaptorSig) ==
  IF Len(sig) # 2 \/ Len(adaptorSig) # 2 THEN 0
  ELSE IF sig[1] # adaptorSig[1] THEN 0
  ELSE IF sig[2] >= adaptorSig[2] THEN sig[2] - adaptorSig[2]
  ELSE adaptorSig[2] - sig[2]

\* mutant of extract: the two r values are not compared
extractAnyR(sig, adaptorSig) ==
  IF Len(sig) # 2 \/ Len(adaptorSig) # 2 THEN 0
  ELSE IF sig[2] >= adaptorSig[2] THEN sig[2] - adaptorSig[2]
  ELSE N - (adaptorSig[2] - sig[2])

\* extract extracts adaptor secret t = (s - s') mod n
extract(sig, adaptorSig) ==
  IF Len(sig) # 2 \/ Len(adaptorSig) # 2 THEN 0
  ELSE LET r1     == sig[1]
           s      == sig[2]
           r2     == adaptorSig[1]
           sPrime == adaptorSig[2]
       IN IF r1 # r2 THEN 0
          ELSE IF s >= sPrime THEN s - sPrime
          ELSE N - (sPrime - s)

\* ------------------------------------------------------------ dispatcher
\* big.Int.Bytes() copied right-aligned into a zeroed 32-byte buffer: the
\* absolute value, as one word
Bytes32(x) == IF x < 0 THEN 0 - x ELSE x

\* what a handler leaves behind: the int32 it returns, the slice it passed
\* to SetReturnData (NoData when it did not call it) and whether it panicked
NoData == <<Nil>>
Returned(code, data) == [status |-> code, data |-> data, fault |-> FALSE]
Panicked == [status |-> Nil, data |-> NoData, fault |-> TRUE]

\* handleVerify verifies a standard BIP-340 signature.  args[1] stands for
\* the length byte and the message bytes it announces.
handleVerify(args) ==
  IF Len(args) < 4 THEN Returned(1, NoData)
  ELSE LET msg == args[1]
           pkX == SubSeq(args, 2, 2)
           sig == SubSeq(args, 3, 4)
       IN Only({
            IF v.fault THEN Panicked
            ELSE IF v.ret THEN Returned(0, NoData) ELSE Returned(1, NoData)
            : v \in {verifyRun(msg, sig, pkX)} })

\* handleAdaptorVerify verifies an adaptor signature
handleAdaptorVerify(args) ==
  IF Len(args) < 6 THEN Returned(1, NoData)
  ELSE LET msg == args[1]
           pkX == SubSeq(args, 2, 2)
           sig == SubSeq(args, 3, 4)
           T   == Affine(args[5], args[6])
       IN Only({
            IF v.fault THEN Panicked
            ELSE IF v.ret THEN Returned(0, NoData) ELSE Returned(1, NoData)
            : v \in {adaptorVerifyRun(msg, sig, pkX, T)} })

\* handleExtract extracts adaptor secret
handleExtract(args) ==
  IF Len(args) # 4 THEN Returned(1, NoData)
  ELSE LET sig        == SubSeq(args, 1, 2)
           adaptorSig == SubSeq(args, 3, 4)
           secret     == extract(sig, adaptorSig)
       IN Returned(0, <<Bytes32(secret)>>)

\* handleLiftX lifts x-coordinate to even-Y point
handleLiftX(args) ==
  IF Len(args) # 1 THEN Returned(1, NoData)
  ELSE Only({
         IF point.err THEN Returned(1, NoData)
         ELSE Returned(0, <<Bytes32(point.pt.X), Bytes32(point.pt.Y)>>)
         : point \in {liftXEvenY(args[1])} })

\* handlePointAdd adds two points
handlePointAdd(args) ==
  IF Len(args) # 4 THEN Returned(1, NoData)
  ELSE LET p1 == Affine(args[1], args[2])
           p2 == Affine(args[3], args[4])
       IN Only({
            IF result = Fault THEN Panicked
            ELSE Returned(0, <<Bytes32(result.X), Bytes32(result.Y)>>)
            : result \in {add(p1, p2)} })

\* handlePointMul multiplies a point by a scalar
handlePointMul(args) ==
  IF Len(args) # 3 THEN Returned(1, NoData)
  ELSE LET point == Affine(args[1], args[2])
           k     == args[3]
       IN Only({
            IF result = Fault THEN Panicked
            ELSE Returned(0, <<Bytes32(result.X), Bytes32(result.Y)>>)
            : result \in {mul(point, k)} })

\* ----------------------------------------------------------------- state
VARIABLES
  pc,          \* "entrypoint" before the call, then "done", or "trap" after a panic
  callData,    \* the runtime's Args: the command byte, then the arguments
  status,      \* the int32 entrypoint returned (Nil before, and after a panic)
  returnData,  \* the runtime's Result (NoData while never written)
  extractCall, \* the call of extract that was made, by handleExtract or
               \* directly as in TestExtract: its arguments and its result
  globals,     \* the big.Int objects behind the package-level variables
  direct,      \* the call of add, double, mul or liftXEvenY a test made
  history,     \* the engine calls made one after the other, with their results
  threads,     \* the engine calls running concurrently, one per thread
  storage,     \* the runtime's Storage: the keys that hold a value
  logs,        \* the runtime's Logs: the entries, oldest first
  api          \* the call of the runtime API, or of the counter contract,
               \* that was made last: its arguments and what it returned

vars == <<pc, callData, status, returnData, extractCall,
          globals, direct, history, threads, storage, logs, api>>

\* extract was not called
NoCall == [called |-> FALSE, sig |-> <<>>, adaptorSig |-> <<>>, secret |-> 0]

\* secret := extract(sig, adaptorSig)
Extracted(sig, adaptorSig) ==
  [called |-> TRUE, sig |-> sig, adaptorSig |-> adaptorSig,
   secret |-> extract(sig, adaptorSig)]

\* the package-level variables P, N, B, GX, GY and SQRT_EXP as their
\* initialisers leave them
Globals0 ==
  [P |-> P, N |-> N, B |-> B, GX |-> GX, GY |-> GY, SQRT_EXP |-> SQRT_EXP]

\* an in-place operation z.Op(...) whose receiver z is the object ref.  The
\* engine has one receiver that it did not allocate itself: k in
\* k.Rsh(k, 1) of mul, the object the caller passed.  It is a package-level
\* variable when ref names one; otherwise it is the caller's own object.
Store(heap, ref, v) ==
  IF ref \in DOMAIN heap THEN [heap EXCEPT ![ref] = v] ELSE heap

\* what mul leaves in the object passed as k: shifted until 0, or as far as
\* the loop got before add or double panicked
shifted(p, k) == mulLoop(Infinity, p, k, 0).k

\* the number of iterations the loop of mul(p, k) makes
iterations(p, k) == mulLoop(Infinity, p, k, 0).iters

\* mutant of verifyScalars: e is the package-level N itself, not a copy
verifyScalarsShared == <<"s", "N">>

\* the objects verify passes to mul as k: s := new(big.Int).SetBytes(...)
\* and e, the new(big.Int) that challengeBIP340 returns
verifyScalars == <<"s", "e">>

\* mutant of adaptorVerifyScalars: sPrime is the package-level N itself
adaptorVerifyScalarsShared == <<"N", "e">>

\* the objects adaptorVerify passes to mul as k
adaptorVerifyScalars == <<"sPrime", "e">>

\* the object handlePointMul passes to mul as k
pointMulScalars == <<"k">>

\* the stores of verify: none before the two calls of mul are reached
verifyStores(heap, msg, sig, pkX) ==
  IF Len(sig) # 2 \/ Len(pkX) # 1 THEN heap
  ELSE IF outOfRange(sig[1], sig[2]) THEN heap
  ELSE Only({
         IF pk.err THEN heap
         ELSE Store(Store(heap, verifyScalars[1], shifted(Affine(GX, GY), sig[2])),
                    verifyScalars[2],
                    shifted(pk.pt, challengeBIP340(sig[1], pkX[1], msg) % N))
         : pk \in {liftXEvenY(pkX[1])} })

\* the stores of adaptorVerify: none before the two calls of mul are reached
adaptorVerifyStores(heap, msg, sig, pkX, T) ==
  IF Len(sig) # 2 \/ Len(pkX) # 1 THEN heap
  ELSE IF outOfRange(sig[1], sig[2]) THEN heap
  ELSE Only({
         IF pk.err \/ ~isOnCurve(T) THEN heap
         ELSE Only({
           IF R.err THEN heap
           ELSE Only({
             IF Rp = Fault \/ Rp.X > MaxWord THEN heap
             ELSE Store(Store(heap, adaptorVerifyScalars[1],
                              shifted(Affine(GX, GY), sig[2])),
                        adaptorVerifyScalars[2],
                        shifted(pk.pt, challengeBIP340(Rp.X, pkX[1], msg) % N))
             : Rp \in {add(R.pt, T)} })
           : R \in {liftXEvenY(sig[1])} })
         : pk \in {liftXEvenY(pkX[1])} })

\* the stores of the handler that entrypoint selects for cd.  handleExtract,
\* handleLiftX and handlePointAdd call nothing that stores into an object
\* they did not allocate.
handlerStores(heap, cd) ==
  IF cd = <<>> THEN heap
  ELSE LET args == Tail(cd)
       IN IF cd[1] = CMD_VERIFY /\ Len(args) >= 4
          THEN verifyStores(heap, args[1], SubSeq(args, 3, 4), SubSeq(args, 2, 2))
          ELSE IF cd[1] = CMD_ADAPTOR_VERIFY /\ Len(args) >= 6
          THEN adaptorVerifyStores(heap, args[1], SubSeq(args, 3, 4),
                                   SubSeq(args, 2, 2), Affine(args[5], args[6]))
          ELSE IF cd[1] = CMD_POINT_MUL /\ Len(args) = 3
          THEN Store(heap, pointMulScalars[1],
                     shifted(Affine(args[1], args[2]), args[3]))
          ELSE heap

\* the package-level variables each function reads
verifyReads == {"P", "N", "B", "GX", "GY", "SQRT_EXP"}
extractReads == {"N"}
challengeReads == {}

\* what a call returns when it runs on heap: value, the result computed
\* with the constants as initialised, while every variable it reads still
\* holds that value; with another value in one of them the result is
\* any of anyResult
ResultsOn(heap, reads, value, anyResult) ==
  IF \A g \in reads : heap[g] = Globals0[g] THEN {value} ELSE anyResult

\* the threads that call the engine concurrently
Threads == {1, 2}

\* a thread that has not called the engine.  phase is where its call is:
\* "mul1" and "mul2" are inside the loops of sG := mul(G, s) and
\* eP := mul(pk, e); result, addend and k are the loop's variables; overlap
\* records that the loop made a step while another thread was inside a loop.
NoThread ==
  [phase |-> "idle", call |-> [fn |-> "none", args |-> <<>>],
   result |-> Infinity, addend |-> Infinity, k |-> 0,
   sG |-> Infinity, pk |-> Infinity, R |-> Infinity, e |-> 0,
   overlap |-> FALSE, out |-> Nil]

\* mutant of scalarOwner: every call passes the object of thread 1
scalarOwnerShared(t) == 1

\* the thread whose call allocated the object that thread t passes to mul
\* as k: s and e are allocated by the call itself
scalarOwner(t) == t

\* verify up to the first call of mul: the result if it returns before,
\* and otherwise the locals s, pk and e
verifyBegin(msg, sig, pkX) ==
  LET no == [go |-> FALSE, out |-> [ret |-> FALSE, fault |-> FALSE],
             s |-> 0, pk |-> Infinity, e |-> 0, R |-> Infinity]
  IN IF Len(sig) # 2 \/ Len(pkX) # 1 THEN no
     ELSE IF outOfRange(sig[1], sig[2]) THEN no
     ELSE Only({
            IF pk.err THEN no
            ELSE [go |-> TRUE, out |-> no.out, s |-> sig[2], pk |-> pk.pt,
                  e |-> challengeBIP340(sig[1], pkX[1], msg) % N, R |-> Infinity]
            : pk \in {liftXEvenY(pkX[1])} })

\* verify after the second call of mul
verifyEnd(sG, eP, r) ==
  Only({
    IF R = Fault THEN [ret |-> FALSE, fault |-> TRUE]
    ELSE IF isInfinity(R) THEN [ret |-> FALSE, fault |-> FALSE]
    ELSE [ret |-> acceptR(R, r), fault |-> FALSE]
    : R \in {add(sG, negate(eP))} })

\* adaptorVerify up to the first call of mul
adaptorVerifyBegin(msg, sig, pkX, T) ==
  LET no == [go |-> FALSE, out |-> [ret |-> FALSE, fault |-> FALSE],
             s |-> 0, pk |-> Infinity, e |-> 0, R |-> Infinity]
      panic == [no EXCEPT !.out = [ret |-> FALSE, fault |-> TRUE]]
  IN IF Len(sig) # 2 \/ Len(pkX) # 1 THEN no
     ELSE IF outOfRange(sig[1], sig[2]) THEN no
     ELSE Only({
            IF pk.err \/ ~isOnCurve(T) THEN no
            ELSE Only({
              IF R.err THEN no
              ELSE Only({
                IF Rp = Fault \/ Rp.X > MaxWord THEN panic
                ELSE [go |-> TRUE, out |-> no.out, s |-> sig[2], pk |-> pk.pt,
                      e |-> challengeBIP340(Rp.X, pkX[1], msg) % N, R |-> R.pt]
                : Rp \in {add(R.pt, T)} })
              : R \in {liftXEvenY(sig[1])} })
            : pk \in {liftXEvenY(pkX[1])} })

\* adaptorVerify after the second call of mul
adaptorVerifyEnd(sG, eP, R, r) ==
  Only({
    IF rhs = Fault THEN [ret |-> FALSE, fault |-> TRUE]
    ELSE IF isInfinity(sG) \/ isInfinity(rhs) THEN [ret |-> FALSE, fault |-> FALSE]
    ELSE verifyEnd(sG, eP, r)
    : rhs \in {add(R, eP)} })

\* -------------------------------------------------------- runtime bridge
\* A byte is a number in 0..255 and a byte slice a sequence of bytes; a Word
\* is a slice of WordLen bytes and an Address one of AddressLen bytes.  A
\* big.Int b >= 0 is held as b.Bytes(): its big-endian magnitude without
\* leading zero bytes.
WordLen == 32
AddressLen == 20
MaxTopics == 4

\* const MaxCallDataSize, scaled down so that the inputs reach beyond it; it
\* stays above the 36 bytes of the counter's event data
MaxCallDataSize == 512

\* make([]byte, n), var w Word
ZeroBytes(n) == [i \in 1..n |-> 0]
ZeroWord == ZeroBytes(WordLen)

\* copy(dst[off:], src): as many bytes as fit
copy(dst, off, src) ==
  [i \in 1..Len(dst) |->
     IF i > off /\ i - off <= Len(src) THEN src[i - off] ELSE dst[i]]

\* value >> (8 * k)
RECURSIVE ShiftBytes(_, _)
ShiftBytes(value, k) == IF k = 0 THEN value ELSE ShiftBytes(value \div 256, k - 1)

\* binary.BigEndian.PutUint64 and PutUint32: the n bytes of value
PutUint(value, n) == [i \in 1..n |-> ShiftBytes(value, n - i) % 256]

\* binary.BigEndian.Uint64 and Uint32: the value of the bytes
RECURSIVE Uint(_)
Uint(bytes) ==
  IF bytes = <<>> THEN 0
  ELSE Uint(SubSeq(bytes, 1, Len(bytes) - 1)) * 256 + bytes[Len(bytes)]

\* PadAddress pads an Ethereum address to a full 32-byte word
PadAddress(addr) == copy(ZeroWord, 12, addr)

\* AddressFromWord extracts an Ethereum address from a 32-byte word
AddressFromWord(word) == copy(ZeroBytes(AddressLen), 0, SubSeq(word, 12 + 1, WordLen))

\* WordFromUint64 creates a 32-byte word from a uint64 value
WordFromUint64(value) == copy(ZeroWord, 24, PutUint(value, WordLen - 24))

\* Uint64FromWord extracts a uint64 from a 32-byte word
Uint64FromWord(word) == Uint(SubSeq(word, 24 + 1, WordLen))

\* new(big.Int).SetBytes(buf): the leading zero bytes do not count
RECURSIVE SetBytes(_)
SetBytes(buf) ==
  IF buf # <<>> /\ buf[1] = 0 THEN SetBytes(Tail(buf)) ELSE buf

\* mutant of WordFromBigInt: of more than 32 bytes the first 32 are kept
WordFromBigIntHigh(value) ==
  LET bytes == IF Len(value) > WordLen THEN SubSeq(value, 1, WordLen) ELSE value
  IN copy(ZeroWord, WordLen - Len(bytes), bytes)

\* WordFromBigInt creates a 32-byte word from a big.Int value
WordFromBigInt(value) ==
  LET bytes == IF Len(value) > WordLen
               THEN SubSeq(value, Len(value) - WordLen + 1, Len(value))
               ELSE value
  IN copy(ZeroWord, WordLen - Len(bytes), bytes)

\* BigIntFromWord creates a big.Int from a 32-byte word
BigIntFromWord(word) == SetBytes(word)

\* the sponge absorbs the input in blocks of WordLen bytes, from block on;
\* the last block is padded
RECURSIVE Absorb(_, _)
Absorb(data, block) ==
  IF block * WordLen >= Len(data)
  THEN [i \in 1..WordLen |-> (Len(data) + (7 * i * i)) % 256]
  ELSE Only({[i \in 1..WordLen |->
                ((3 * rest[i]) + 1
                 + (IF (block * WordLen) + i <= Len(data)
                    THEN data[(block * WordLen) + i] ELSE 0)) % 256] :
             rest \in {Absorb(data, block + 1)}})

\* Keccak256 computes the Keccak256 hash of the input data.  The hash is
\* modelled by a fixed mixing function onto 32 bytes: deterministic, sensitive
\* to every byte and to the order of the bytes, and not the identity; the
\* empty input gives the zero word without hashing.
\* the addresses of TestERC20
ownerAddress == copy(ZeroBytes(AddressLen), 0,
              <<111, 119, 110, 101, 114, 49, 50, 51, 52, 53, 54, 55, 56, 57, 48,
                49, 50, 51, 52>>)
spenderAddress == copy(ZeroBytes(AddressLen), 0,
                <<115, 112, 101, 110, 100, 101, 114, 49, 50, 51, 52, 53, 54, 55,
                  56, 57, 48, 49>>)
recipientAddress == copy(ZeroBytes(AddressLen), 0,
                  <<114, 101, 99, 105, 112, 105, 101, 110, 116, 49, 50, 51, 52,
                    53, 54, 55, 56, 57>>)

\* the inputs the ERC20 and NFT contracts hash: their labels, the balance and
\* allowance prefixes followed by one or two addresses, and the owner and
\* approval prefixes followed by a token id
Preimages ==
  Only({{<<98, 97, 108, 97, 110, 99, 101>>,
         <<97, 108, 108, 111, 119, 97, 110, 99, 101>>,
         <<99, 97, 108, 108, 101, 114>>}
        \cup {Absorb(<<98, 97, 108, 97, 110, 99, 101>>, 0) \o a : a \in holders}
        \cup {Absorb(<<97, 108, 108, 111, 119, 97, 110, 99, 101>>, 0) \o a \o b :
                a \in holders, b \in holders}
        \cup {<<116, 111, 116, 97, 108, 83, 117, 112, 112, 108, 121>>,
              <<111, 119, 110, 101, 114>>,
              <<97, 112, 112, 114, 111, 118, 97, 108>>}
        \cup {Absorb(<<111, 119, 110, 101, 114>>, 0) \o PutUint(id, 8) : id \in 0..3}
        \cup {Absorb(<<97, 112, 112, 114, 111, 118, 97, 108>>, 0) \o PutUint(id, 8) :
                id \in 0..3} :
        holders \in {{ownerAddress, spenderAddress, recipientAddress, ZeroBytes(AddressLen)}}})

\* the digests of the inputs in S, computed once
RECURSIVE Digests(_)
Digests(S) ==
  IF S = {} THEN <<>>
  ELSE Only({(data :> Absorb(data, 0)) @@ Digests(S \ {data}) :
             data \in {CHOOSE d \in S : TRUE}})

\* the digests of Preimages
Digested == Digests(Preimages)

Keccak256(data) ==
  IF Len(data) = 0 THEN ZeroWord
  ELSE IF data \in DOMAIN Digested THEN Digested[data]
  ELSE Absorb(data, 0)

\* fmt.Sprintf("%d", n)
RECURSIVE Decimal(_)
Decimal(n) ==
  IF n < 10 THEN <<48 + n>> ELSE Append(Decimal(n \div 10), 48 + (n % 10))

\* one digit of %x
HexDigit(d) == IF d < 10 THEN 48 + d ELSE 87 + d

\* fmt.Sprintf("%x", bytes): two lower-case digits per byte
RECURSIVE Hex(_)
Hex(bytes) ==
  IF bytes = <<>> THEN <<>>
  ELSE <<HexDigit(bytes[1] \div 16), HexDigit(bytes[1] % 16)>> \o Hex(Tail(bytes))

\* the bytes of "Topics: ", "  Topic ", ": ", "Data: " and "\n"
TopicsText == <<84, 111, 112, 105, 99, 115, 58, 32>>
TopicText == <<32, 32, 84, 111, 112, 105, 99, 32>>
ColonText == <<58, 32>>
DataText == <<68, 97, 116, 97, 58, 32>>
NewLine == <<10>>

\* mock_emit_log, the loop over the topics: "  Topic %d: %x\n" for topic i
\* and those after it
RECURSIVE topicLines(_, _)
topicLines(topics, i) ==
  IF i > Len(topics) THEN <<>>
  ELSE TopicText \o Decimal(i) \o ColonText \o Hex(topics[i]) \o NewLine
       \o topicLines(topics, i + 1)

\* mutant of mock_emit_log: an entry is appended only when there is data
mock_emit_log_data_only(entries, data, topics) ==
  IF Len(data) > 0
  THEN Append(entries, TopicsText \o Decimal(Len(topics)) \o NewLine
                       \o topicLines(topics, 1)
                       \o DataText \o Hex(data) \o NewLine)
  ELSE entries

\* mock_emit_log appends the entry it formats to Logs: "Topics: %d\n", a
\* line for each topic and, when there is data, "Data: %x\n"
mock_emit_log(entries, data, topics) ==
  Append(entries, TopicsText \o Decimal(Len(topics)) \o NewLine
                  \o topicLines(topics, 1)
                  \o (IF Len(data) > 0 THEN DataText \o Hex(data) \o NewLine
                      ELSE <<>>))

\* the error EmitEvent returns
emitEventErr(data, topics) ==
  IF Len(topics) > MaxTopics THEN "ErrInvalidInput"
  ELSE IF Len(data) > 0 /\ Len(data) > MaxCallDataSize THEN "ErrMemoryLimit"
  ELSE "nil"

\* EmitEvent emits an EVM log with the given topics and data: Logs after it
EmitEvent(entries, data, topics) ==
  IF emitEventErr(data, topics) = "nil"
  THEN mock_emit_log(entries, data, topics)
  ELSE entries

\* mock storage, before any store
NoStorage == [k \in {} |-> ZeroWord]

\* mutant of mock_storage_load_bytes32: the key is not looked up
mock_storage_load_zero(store, key) == ZeroWord

\* mock_storage_load_bytes32: if key doesn't exist, return zero bytes
mock_storage_load_bytes32(store, key) ==
  IF key \in DOMAIN store THEN store[key] ELSE ZeroWord

\* mock_storage_store_bytes32: a zero value deletes the key
mock_storage_store_bytes32(store, key, value) ==
  IF \A i \in 1..WordLen : value[i] = 0
  THEN [k \in DOMAIN store \ {key} |-> store[k]]
  ELSE [k \in DOMAIN store \cup {key} |-> IF k = key THEN value ELSE store[k]]

\* StorageLoad loads a 32-byte word from storage using a 32-byte key
StorageLoad(store, key) == mock_storage_load_bytes32(store, key)

\* StorageStore stores a 32-byte word to storage using a 32-byte key
StorageStore(store, key, value) == mock_storage_store_bytes32(store, key, value)

\* mock_read_args copies all of Args to ptr, whatever ptr points to: with
\* capacity bytes behind ptr it writes past them when Args is longer
readArgsOverflows(capacity, args) == Len(args) > capacity

\* GetCallData returns the input data for the current call.  Its first
\* ReadArgs is given the address of one byte, dummyByte: for Args of two
\* bytes or more that call writes out of bounds, after which the call may
\* go on as if nothing happened or the process may stop (fault).
GetCallData(args) ==
  (IF readArgsOverflows(1, args)
   THEN {[data |-> <<>>, err |-> "nil", fault |-> TRUE]} ELSE {})
  \cup
  {IF Len(args) = 0 THEN [data |-> <<>>, err |-> "nil", fault |-> FALSE]
   ELSE IF Len(args) > MaxCallDataSize
        THEN [data |-> <<>>, err |-> "ErrMemoryLimit", fault |-> FALSE]
        ELSE [data |-> args, err |-> "nil", fault |-> FALSE]}

\* the error SetReturnData returns
setReturnDataErr(data) ==
  IF Len(data) = 0 THEN "nil"
  ELSE IF Len(data) > MaxCallDataSize THEN "ErrMemoryLimit"
  ELSE "nil"

\* no call of the runtime API has been made; written maps each key that was
\* ever stored to the value of the last StorageStore to it
NoApi ==
  [op |-> "none", key |-> ZeroWord, value |-> ZeroWord, loaded |-> ZeroWord,
   written |-> NoStorage, data |-> <<>>, topics |-> <<>>, err |-> "nil",
   got |-> <<>>, resultBefore |-> <<>>, logsBefore |-> <<>>,
   arg |-> <<>>, word |-> ZeroWord, ret |-> <<>>,
   expected |-> 0, before |-> 0, after |-> 0,
   store |-> NoStorage, grants |-> <<>>]

\* ------------------------------------------------------ counter contract
CMD_GET == 0
CMD_INCREMENT == 1
CMD_DECREMENT == 2
CMD_RESET == 3

\* the number of values of the uint32 counter (2^32 in the source), scaled
\* down so that the calls reach the largest value
Uint32Mod == 4

\* the offset of the counter in its storage word, and of the value in the
\* event data; the length of the event data
CounterOffset == 28
ValueOffset == 32
EventDataLen == 36

\* the bytes of "counter", "CounterEvent(string,uint32)", "Increment",
\* "Decrement" and "Reset"
CounterText == <<99, 111, 117, 110, 116, 101, 114>>
SignatureText == <<67, 111, 117, 110, 116, 101, 114, 69, 118, 101, 110, 116, 40, 115, 116, 114, 105, 110, 103, 44, 117, 105, 110, 116, 51, 50, 41>>
IncrementText == <<73, 110, 99, 114, 101, 109, 101, 110, 116>>
DecrementText == <<68, 101, 99, 114, 101, 109, 101, 110, 116>>
ResetText == <<82, 101, 115, 101, 116>>

\* Storage keys
counterKey == Keccak256(CounterText)

\* getCounter retrieves the current counter value from storage
getCounter(store) ==
  Uint(SubSeq(StorageLoad(store, counterKey), CounterOffset + 1, WordLen))
    % Uint32Mod

\* setCounter stores the counter value in storage
setCounter(store, value) ==
  StorageStore(store, counterKey,
               copy(ZeroWord, CounterOffset, PutUint(value, WordLen - CounterOffset)))

\* the event data of emitCounterEvent: action string + uint32
eventData(action, value) ==
  copy(copy(ZeroBytes(EventDataLen), 0, action),
       ValueOffset, PutUint(value, EventDataLen - ValueOffset))

\* mutant of emitCounterEvent: the event is emitted twice
emitCounterEventTwice(entries, action, value) ==
  EmitEvent(EmitEvent(entries, eventData(action, value), <<Keccak256(SignatureText)>>),
            eventData(action, value), <<Keccak256(SignatureText)>>)

\* emitCounterEvent emits an event with the counter value: Logs after it
emitCounterEvent(entries, action, value) ==
  EmitEvent(entries, eventData(action, value), <<Keccak256(SignatureText)>>)

\* the command of a call: default to GET if no command is provided
commandOf(data) == IF Len(data) >= 1 THEN data[1] ELSE CMD_GET

\* the switch of the counter's entrypoint on a counter that holds
\* counterValue: the value after it, with uint32 arithmetic
processed(command, counterValue) ==
  IF command = CMD_INCREMENT THEN (counterValue + 1) % Uint32Mod
  ELSE IF command = CMD_DECREMENT
       THEN (IF counterValue > 0 THEN counterValue - 1 ELSE counterValue)
  ELSE IF command = CMD_RESET THEN 0
  ELSE counterValue

\* the action string of a command that changes the state
actionOf(command) ==
  IF command = CMD_INCREMENT THEN IncrementText
  ELSE IF command = CMD_DECREMENT THEN DecrementText
  ELSE ResetText

\* entrypoint of the counter contract, called with Args = args on the
\* storage store and the logs entries: what it may leave.  wrote says
\* whether SetReturnData was called, with data.
counterEntrypoint(args, store, entries) ==
  { IF g.fault
    THEN [status |-> Nil, fault |-> TRUE, storage |-> store, logs |-> entries,
          wrote |-> FALSE, data |-> <<>>]
    ELSE IF g.err # "nil"
    THEN [status |-> 1, fault |-> FALSE, storage |-> store, logs |-> entries,
          wrote |-> FALSE, data |-> <<>>]
    ELSE Only({
           [status |-> 0, fault |-> FALSE,
            storage |-> IF command \in {CMD_INCREMENT, CMD_DECREMENT, CMD_RESET}
                        THEN setCounter(store, processed(command, getCounter(store)))
                        ELSE store,
            logs |-> IF command \in {CMD_INCREMENT, CMD_DECREMENT, CMD_RESET}
                     THEN emitCounterEvent(entries, actionOf(command),
                                           processed(command, getCounter(store)))
                     ELSE entries,
            wrote |-> TRUE,
            data |-> PutUint(processed(command, getCounter(store)), 4)]
           : command \in {commandOf(g.data)} })
    : g \in GetCallData(args) }

\* no test has called a group operation
NoDirect ==
  [op |-> "none", p1 |-> Infinity, p2 |-> Infinity, x |-> 0, k |-> 0,
   kAfter |-> 0, calls |-> 0, result |-> Infinity, again |-> Infinity,
   err |-> FALSE, iters |-> 0]

Init ==
  /\ pc = "entrypoint"
  /\ callData = <<>>
  /\ status = Nil
  /\ returnData = NoData
  /\ extractCall = NoCall
  /\ globals = Globals0
  /\ direct = NoDirect
  /\ history = <<>>
  /\ threads = [t \in Threads |-> NoThread]
  /\ storage = NoStorage
  /\ logs = <<>>
  /\ api = NoApi

\* SetReturnData: an empty slice is not written
SetReturnData(data) ==
  IF Len(data) = 0 THEN returnData
  ELSE IF Len(data) > MaxCallDataSize THEN returnData
  ELSE data

\* no call has been made yet
Idle == pc = "entrypoint"

\* the harness sets Args to cd and calls entrypoint, whose handler leaves h
Call(cd, handled) ==
  \E h \in {handled} :
     /\ callData' = cd
     /\ pc' = IF h.fault THEN "trap" ELSE "done"
     /\ status' = h.status
     /\ returnData' = IF h.data = NoData THEN returnData ELSE SetReturnData(h.data)
     /\ extractCall' =
          IF Len(cd) = 5 /\ cd[1] = CMD_EXTRACT
          THEN Extracted(SubSeq(cd, 2, 3), SubSeq(cd, 4, 5))
          ELSE extractCall
     /\ globals' = handlerStores(globals, cd)
     /\ UNCHANGED <<direct, history, threads,
                    storage, logs, api>>

\* ---------------------------------------------------------------- inputs
G == Affine(GX, GY)

\* public keys: no point has x = 0; G and 2G; a word >= P
PubKeys == {0, GX, double(G).X, MaxWord}

\* adaptor points: Infinity, G, -G, 2G, G with its x written as GX + P
\* (on the curve by isOnCurve, which reduces mod P), and a pair off the curve
AdaptorPoints ==
  {Infinity, G, negate(G), double(G), Affine(GX + P, GY), Affine(GX, GY + 1)}

\* every pair of words that isOnCurve accepts (Infinity included), and two
\* pairs off the curve: the negation verify computes for Infinity, and (x, P)
PointSample ==
  {pt \in [X : Word, Y : Word] : isOnCurve(pt)} \cup {negate(Infinity), Affine(GX, P)}

\* r values of the two signatures given to extract
ExtractRs == {0, GX}

\* argument lists cut short
Truncated == {<<>>, <<0>>, <<0, GX>>}

\* the byte slices TestExtract-style callers pass: 32, 64 or 96 bytes
DirectSigs ==
  UNION {[1..n -> {0, GX, N}] : n \in 1..3}

\* the calls made one after the other: 64-byte signatures that verify
\* accepts, rejects and refuses for s >= N, and a 32-byte slice
SeqSigs == {<<26, 0>>, <<26, 1>>, <<GX, N>>, <<26>>}
SeqMsgs == {0, 1}
SeqPubKeys == {0, GX}
SeqAdaptorPoints == {Infinity, G}

\* the calls the threads make, each on its own byte slices
ThreadCalls ==
  {[fn |-> "verify", args |-> <<msg, sig, GX>>] : msg \in SeqMsgs, sig \in SeqSigs}
  \cup {[fn |-> "adaptorVerify", args |-> <<0, sig, GX, T>>] :
           sig \in SeqSigs, T \in SeqAdaptorPoints}
  \cup {[fn |-> "extract", args |-> <<sig, <<26, 1>>>>] : sig \in SeqSigs}

\* the points the tests pass to add, double and mul: PointSample, and two
\* pairs off the curve with y = 0
GroupSample == PointSample \cup {Affine(GX, 0), Affine(P, 0)}

\* --------------------------------------------------------------- actions
\* len(callData) < 1: Invalid input
EntryEmpty == Idle /\ Call(<<>>, Returned(1, NoData))

\* default: Unknown command
EntryUnknown ==
  Idle /\ \E c \in (CMD_POINT_MUL + 1)..MaxWord, a \in {<<>>, <<GX>>} :
    Call(<<c>> \o a, Returned(1, NoData))

\* case CMD_VERIFY
EntryVerify ==
  /\ Idle
  /\ \/ \E m \in Msgs, pk \in PubKeys, r \in Word, s \in Word :
          LET cd == <<CMD_VERIFY, m, pk, r, s>> IN Call(cd, handleVerify(Tail(cd)))
     \/ \E a \in Truncated :
          LET cd == <<CMD_VERIFY>> \o a IN Call(cd, handleVerify(Tail(cd)))

\* case CMD_ADAPTOR_VERIFY
EntryAdaptorVerify ==
  /\ Idle
  /\ \/ \E m \in Msgs, pk \in PubKeys \ {MaxWord}, r \in Word, s \in Word, T \in AdaptorPoints :
          LET cd == <<CMD_ADAPTOR_VERIFY, m, pk, r, s, T.X, T.Y>>
          IN Call(cd, handleAdaptorVerify(Tail(cd)))
     \/ \E a \in Truncated :
          LET cd == <<CMD_ADAPTOR_VERIFY>> \o a IN Call(cd, handleAdaptorVerify(Tail(cd)))

\* case CMD_EXTRACT
EntryExtract ==
  /\ Idle
  /\ \/ \E r1 \in ExtractRs, r2 \in ExtractRs, s \in Word, sp \in Word :
          LET cd == <<CMD_EXTRACT, r1, s, r2, sp>> IN Call(cd, handleExtract(Tail(cd)))
     \/ \E a \in Truncated :
          LET cd == <<CMD_EXTRACT>> \o a IN Call(cd, handleExtract(Tail(cd)))

\* case CMD_LIFT_X
EntryLiftX ==
  /\ Idle
  /\ \/ \E x \in Word :
          LET cd == <<CMD_LIFT_X, x>> IN Call(cd, handleLiftX(Tail(cd)))
     \/ \E a \in Truncated \ {<<0>>} :
          LET cd == <<CMD_LIFT_X>> \o a IN Call(cd, handleLiftX(Tail(cd)))

\* case CMD_POINT_ADD
EntryPointAdd ==
  /\ Idle
  /\ \/ \E p1 \in PointSample, p2 \in PointSample :
          LET cd == <<CMD_POINT_ADD, p1.X, p1.Y, p2.X, p2.Y>>
          IN Call(cd, handlePointAdd(Tail(cd)))
     \/ \E a \in Truncated :
          LET cd == <<CMD_POINT_ADD>> \o a IN Call(cd, handlePointAdd(Tail(cd)))

\* case CMD_POINT_MUL
EntryPointMul ==
  /\ Idle
  /\ \/ \E pt \in PointSample, k \in Word :
          LET cd == <<CMD_POINT_MUL, pt.X, pt.Y, k>> IN Call(cd, handlePointMul(Tail(cd)))
     \/ \E a \in Truncated :
          LET cd == <<CMD_POINT_MUL>> \o a IN Call(cd, handlePointMul(Tail(cd)))

\* secret := extract(sig, adaptorSig), called directly
DirectExtract ==
  Idle /\ \E sg \in DirectSigs, asg \in DirectSigs :
    /\ pc' = "done"
    /\ extractCall' = Extracted(sg, asg)
    /\ UNCHANGED <<callData, status, returnData, globals, direct, history, threads,
                   storage, logs, api>>

\* result := add(p1, p2), as TestPointOperations and TestInfinityPoint call it
DirectAdd ==
  Idle /\ \E p1 \in GroupSample, p2 \in GroupSample :
    \E sum \in {add(p1, p2)} :
      /\ direct' = [NoDirect EXCEPT !.op = "add", !.p1 = p1, !.p2 = p2,
                                     !.calls = 1, !.result = sum]
      /\ pc' = IF sum = Fault THEN "trap" ELSE "done"
      /\ UNCHANGED <<callData, status, returnData, extractCall,
                     globals, history, threads,
                     storage, logs, api>>

\* g2 := double(g), as TestPointOperations calls it
DirectDouble ==
  Idle /\ \E p \in GroupSample :
    \E twice \in {double(p)} :
      /\ direct' = [NoDirect EXCEPT !.op = "double", !.p1 = p,
                                     !.calls = 1, !.result = twice]
      /\ pc' = IF twice = Fault THEN "trap" ELSE "done"
      /\ UNCHANGED <<callData, status, returnData, extractCall,
                     globals, history, threads,
                     storage, logs, api>>

\* k := big.NewInt(...); mul(g, k), as TestPointOperations and
\* BenchmarkPointMul call it.  kAfter is the value of the object k when mul
\* has returned.
DirectMul ==
  Idle /\ \E p \in GroupSample, k \in Word :
    \E product \in {mul(p, k)} :
      /\ direct' = [NoDirect EXCEPT !.op = "mul", !.p1 = p, !.k = k,
                                     !.kAfter = shifted(p, k), !.calls = 1,
                                     !.result = product,
                                     !.iters = iterations(p, k)]
      /\ pc' = IF product = Fault THEN "trap" ELSE "done"
      /\ UNCHANGED <<callData, status, returnData, extractCall,
                     globals, history, threads,
                     storage, logs, api>>

\* the next iteration of BenchmarkPointMul: mul(g, k) again, with the same
\* object k
DirectMulAgain ==
  /\ pc = "done"
  /\ direct.op = "mul"
  /\ direct.calls = 1
  /\ \E product \in {mul(direct.p1, direct.kAfter)} :
      /\ direct' = [direct EXCEPT !.kAfter = shifted(direct.p1, direct.kAfter),
                                  !.calls = 2, !.again = product]
      /\ pc' = IF product = Fault THEN "trap" ELSE "done"
      /\ UNCHANGED <<callData, status, returnData, extractCall,
                     globals, history, threads,
                     storage, logs, api>>

\* point, err := liftXEvenY(gx), as TestLiftXEvenY calls it
DirectLiftX ==
  Idle /\ \E x \in Word :
    \E lifted \in {liftXEvenY(x)} :
      /\ direct' = [NoDirect EXCEPT !.op = "liftXEvenY", !.x = x, !.calls = 1,
                                     !.result = lifted.pt, !.err = lifted.err]
      /\ pc' = "done"
      /\ UNCHANGED <<callData, status, returnData, extractCall,
                     globals, history, threads,
                     storage, logs, api>>

\* one more call may be made: the process has not panicked
MayCall == pc # "trap" /\ Len(history) < MaxCalls

\* the call fn(args) returned out (a panic is an out with fault) and stored
\* what stores(globals) says
Called(fn, args, out, stored) ==
  /\ history' = Append(history, [fn |-> fn, args |-> args, out |-> out])
  /\ globals' = stored
  /\ pc' = IF fn \in {"verify", "adaptorVerify"} /\ out.fault THEN "trap" ELSE "done"
  /\ UNCHANGED <<callData, status, returnData, extractCall, direct, threads,
                 storage, logs, api>>

\* valid := verify(msg, sig, pkX)
SeqVerify ==
  MayCall /\ \E msg \in SeqMsgs, sig \in SeqSigs, pkX \in SeqPubKeys :
    \E out \in ResultsOn(globals, verifyReads, verifyRun(msg, sig, <<pkX>>),
                         [ret : BOOLEAN, fault : BOOLEAN]) :
      Called("verify", <<msg, sig, pkX>>, out,
             verifyStores(globals, msg, sig, <<pkX>>))

\* valid := adaptorVerify(msg, sig, pkX, T)
SeqAdaptorVerify ==
  MayCall /\ \E msg \in SeqMsgs, sig \in SeqSigs, T \in SeqAdaptorPoints :
    \E out \in ResultsOn(globals, verifyReads, adaptorVerifyRun(msg, sig, <<GX>>, T),
                         [ret : BOOLEAN, fault : BOOLEAN]) :
      Called("adaptorVerify", <<msg, sig, GX, T>>, out,
             adaptorVerifyStores(globals, msg, sig, <<GX>>, T))

\* secret := extract(sig, adaptorSig)
SeqExtract ==
  MayCall /\ \E sig \in SeqSigs, adaptorSig \in SeqSigs :
    \E out \in ResultsOn(globals, extractReads, extract(sig, adaptorSig),
                         (0 - MaxWord)..MaxWord) :
      Called("extract", <<sig, adaptorSig>>, out, globals)

\* e := challengeBIP340(r, pkX, msg)
SeqChallenge ==
  MayCall /\ \E r \in {GX, 26}, msg \in SeqMsgs :
    \E out \in ResultsOn(globals, challengeReads, challengeBIP340(r, GX, msg), Word) :
      Called("challengeBIP340", <<r, GX, msg>>, out, globals)

\* the call a thread makes, up to its first call of mul
Begin(call) ==
  IF call.fn = "verify"
  THEN verifyBegin(call.args[1], call.args[2], <<call.args[3]>>)
  ELSE IF call.fn = "adaptorVerify"
  THEN adaptorVerifyBegin(call.args[1], call.args[2], <<call.args[3]>>, call.args[4])
  ELSE [go |-> FALSE, out |-> extract(call.args[1], call.args[2]),
        s |-> 0, pk |-> Infinity, e |-> 0, R |-> Infinity]

\* the variables the call reads, and the results it can give when one of
\* them was changed
Reads(fn) == IF fn = "extract" THEN extractReads ELSE verifyReads
AnyResult(fn) ==
  IF fn = "extract" THEN (0 - MaxWord)..MaxWord ELSE [ret : BOOLEAN, fault : BOOLEAN]

\* the call of thread t returns value, or panics: a panic ends the process
ThreadReturns(t, call, value) ==
  \E out \in ResultsOn(globals, Reads(call.fn), value, AnyResult(call.fn)) :
    /\ threads' = [threads EXCEPT ![t].phase = "done", ![t].call = call,
                                  ![t].out = out]
    /\ pc' = IF call.fn # "extract" /\ out.fault THEN "trap" ELSE pc

\* thread t calls the engine and runs up to the first loop of mul
ThreadStart(t) ==
  /\ pc # "trap"
  /\ threads[t].phase = "idle"
  /\ \E call \in ThreadCalls :
       \E b \in {Begin(call)} :
         IF b.go
         THEN /\ threads' =
                   [threads EXCEPT
                      ![t] = [@ EXCEPT !.phase = "mul1", !.call = call,
                                       !.result = Infinity,
                                       !.addend = Affine(GX, GY),
                                       !.pk = b.pk, !.e = b.e, !.R = b.R],
                      ![scalarOwner(t)].k = b.s]
              /\ pc' = pc
         ELSE ThreadReturns(t, call, b.out)
  /\ UNCHANGED <<callData, status, returnData, extractCall, globals, direct, history,
                 storage, logs, api>>

\* one iteration of the loop of mul in thread t
ThreadMulStep(t) ==
  /\ pc # "trap"
  /\ threads[t].phase \in {"mul1", "mul2"}
  /\ threads[scalarOwner(t)].k > 0
  /\ LET th == threads[t]
         k  == threads[scalarOwner(t)].k
     IN \E r1 \in {IF k % 2 = 1 THEN add(th.result, th.addend) ELSE th.result} :
        \E a1 \in {IF r1 = Fault THEN Fault ELSE double(th.addend)} :
          IF a1 = Fault
          THEN ThreadReturns(t, th.call, [ret |-> FALSE, fault |-> TRUE])
          ELSE /\ threads' =
                    [threads EXCEPT
                       ![t].result = r1,
                       ![t].addend = a1,
                       ![t].overlap =
                         @ \/ \E u \in Threads \ {t} :
                                threads[u].phase \in {"mul1", "mul2"},
                       ![scalarOwner(t)].k = k \div 2]
               /\ pc' = pc
  /\ UNCHANGED <<callData, status, returnData, extractCall, globals, direct, history,
                 storage, logs, api>>

\* the loop of mul in thread t ends: after the first, the second begins;
\* after the second, the call returns
ThreadMulReturn(t) ==
  /\ pc # "trap"
  /\ threads[t].phase \in {"mul1", "mul2"}
  /\ threads[scalarOwner(t)].k = 0
  /\ LET th == threads[t]
     IN IF th.phase = "mul1"
        THEN /\ threads' =
                  [threads EXCEPT
                     ![t].phase = "mul2",
                     ![t].sG = th.result,
                     ![t].result = Infinity,
                     ![t].addend = th.pk,
                     ![scalarOwner(t)].k = th.e]
             /\ pc' = pc
        ELSE ThreadReturns(t, th.call,
               IF th.call.fn = "verify"
               THEN verifyEnd(th.sG, th.result, th.call.args[2][1])
               ELSE adaptorVerifyEnd(th.sG, th.result, th.R, th.call.args[2][1]))
  /\ UNCHANGED <<callData, status, returnData, extractCall, globals, direct, history,
                 storage, logs, api>>

\* ------------------------------------------------ runtime bridge: inputs
\* a Word literal such as Word{1, 2, 3, 4, 5}
WordOf(prefix) == copy(ZeroWord, 0, prefix)

\* the keys and values of TestStorageRoundTrip, the zero word and the word
\* of the number 1
StorageKeys == {WordOf(<<1, 2, 3, 4, 5>>), ZeroWord, WordFromUint64(1)}
StorageValues == {WordOf(<<10, 20, 30, 40, 50>>), ZeroWord, WordFromUint64(1)}

\* uint64 values: the small ones, those around a byte boundary, the value of
\* TestWordConversions and the largest 32-bit signed integer
Uint64Sample ==
  0..MaxValue \cup {255, 256, 65535, 65536, 123456789, 2147483647}

\* addresses: zero, the address 1, 2, ..., 20 of TestWordConversions, all
\* 0xff, and one with only its first or only its last byte set
AddressSample ==
  {ZeroBytes(AddressLen),
   [i \in 1..AddressLen |-> i],
   [i \in 1..AddressLen |-> 255],
   [i \in 1..AddressLen |-> IF i = 1 THEN 1 ELSE 0],
   [i \in 1..AddressLen |-> IF i = AddressLen THEN 1 ELSE 0]}

\* big integers: 0, 1, 987654321 of TestWordConversions, 2^256 - 1, 2^248,
\* and four that are 2^256 or more
BigIntSample ==
  {<<>>, <<1>>, <<58, 222, 104, 177>>,
   [i \in 1..WordLen |-> 255],
   [i \in 1..WordLen |-> IF i = 1 THEN 1 ELSE 0],
   [i \in 1..(WordLen + 1) |-> IF i = 1 THEN 1 ELSE 0],
   [i \in 1..(WordLen + 1) |-> IF i = 1 \/ i = WordLen + 1 THEN 1 ELSE 0],
   [i \in 1..(WordLen + 1) |-> IF i = 1 THEN 2 ELSE 255],
   [i \in 1..(WordLen + 2) |-> IF i = 1 THEN 1 ELSE IF i = 4 THEN 7 ELSE 0]}

\* ----------------------------------------------- runtime bridge: actions
\* a test may call the runtime API: the process has not stopped
Running == pc # "trap"

\* written after StorageStore(key, value)
Remember(written, key, value) ==
  [k \in DOMAIN written \cup {key} |-> IF k = key THEN value ELSE written[k]]

\* StorageStore(key, value), as TestStorageRoundTrip calls it
ApiStorageStore ==
  Running /\ \E key \in StorageKeys, value \in StorageValues :
    /\ storage' = StorageStore(storage, key, value)
    /\ api' = [NoApi EXCEPT !.op = "StorageStore", !.key = key, !.value = value,
                            !.written = Remember(api.written, key, value)]
    /\ pc' = "done"
    /\ UNCHANGED <<callData, status, returnData, extractCall, globals, direct,
                   history, threads, logs>>

\* loadedValue := StorageLoad(key)
ApiStorageLoad ==
  Running /\ \E key \in StorageKeys :
    /\ api' = [NoApi EXCEPT !.op = "StorageLoad", !.key = key,
                            !.loaded = StorageLoad(storage, key),
                            !.written = api.written]
    /\ pc' = "done"
    /\ UNCHANGED <<callData, status, returnData, extractCall, globals, direct,
                   history, threads, storage, logs>>

\* converted := Uint64FromWord(WordFromUint64(value))
ApiUint64 ==
  Running /\ \E value \in Uint64Sample :
    \E word \in {WordFromUint64(value)} :
      /\ api' = [NoApi EXCEPT !.op = "Uint64", !.arg = value, !.word = word,
                              !.ret = Uint64FromWord(word),
                              !.written = api.written]
      /\ pc' = "done"
      /\ UNCHANGED <<callData, status, returnData, extractCall, globals,
                     direct, history, threads, storage, logs>>

\* extractedAddr := AddressFromWord(PadAddress(addr))
ApiAddress ==
  Running /\ \E addr \in AddressSample :
    \E word \in {PadAddress(addr)} :
      /\ api' = [NoApi EXCEPT !.op = "Address", !.arg = addr, !.word = word,
                              !.ret = AddressFromWord(word),
                              !.written = api.written]
      /\ pc' = "done"
      /\ UNCHANGED <<callData, status, returnData, extractCall, globals,
                     direct, history, threads, storage, logs>>

\* convertedBig := BigIntFromWord(WordFromBigInt(bigValue))
ApiBigInt ==
  Running /\ \E bigValue \in BigIntSample :
    \E word \in {WordFromBigInt(bigValue)} :
      /\ api' = [NoApi EXCEPT !.op = "BigInt", !.arg = bigValue, !.word = word,
                              !.ret = BigIntFromWord(word),
                              !.written = api.written]
      /\ pc' = "done"
      /\ UNCHANGED <<callData, status, returnData, extractCall, globals,
                     direct, history, threads, storage, logs>>

\* result slices: empty, the one of TestSetReturnData, one byte, and the
\* longest allowed and one byte more
ReturnSample ==
  {<<>>, <<10, 20, 30, 40, 50>>, <<1>>,
   ZeroBytes(MaxCallDataSize), ZeroBytes(MaxCallDataSize + 1)}

\* call data: none, one byte, the five bytes of TestGetCallData, and the
\* longest allowed and one byte more
ArgsSample ==
  {<<>>, <<7>>, <<1, 2, 3, 4, 5>>,
   ZeroBytes(MaxCallDataSize), ZeroBytes(MaxCallDataSize + 1)}

\* event data: none, "event data" of TestEmitEvent, and one byte more than
\* allowed
EventData ==
  {<<>>, <<101, 118, 101, 110, 116, 32, 100, 97, 116, 97>>,
   ZeroBytes(MaxCallDataSize + 1)}

\* topics: none to five times the first topic of TestEmitEvent, and its two
\* topics
TopicLists ==
  {[i \in 1..n |-> WordOf(<<1, 2, 3>>)] : n \in 0..(MaxTopics + 1)}
  \cup {<<WordOf(<<1, 2, 3>>), WordOf(<<4, 5, 6>>)>>}

\* the calls of the counter tests: no call data, each command, the unknown
\* command 255 of TestInvalidInput, INCREMENT followed by a second byte, and
\* call data longer than allowed that begins with INCREMENT
CounterArgs ==
  {<<>>, <<CMD_GET>>, <<CMD_INCREMENT>>, <<CMD_DECREMENT>>, <<CMD_RESET>>,
   <<255>>, <<CMD_INCREMENT, 0>>,
   copy(ZeroBytes(MaxCallDataSize + 1), 0, <<CMD_INCREMENT>>)}

\* SetReturnData(testData)
ApiSetReturnData ==
  Running /\ \E data \in ReturnSample :
    /\ returnData' = SetReturnData(data)
    /\ api' = [NoApi EXCEPT !.op = "SetReturnData", !.data = data,
                            !.err = setReturnDataErr(data),
                            !.resultBefore = returnData,
                            !.written = api.written]
    /\ pc' = "done"
    /\ UNCHANGED <<callData, status, extractCall, globals, direct, history,
                   threads, storage, logs>>

\* mock.Args = testData; callData, err := GetCallData()
ApiGetCallData ==
  Running /\ \E args \in ArgsSample :
    \E g \in GetCallData(args) :
      /\ callData' = args
      /\ api' = [NoApi EXCEPT !.op = "GetCallData", !.got = g.data,
                              !.err = g.err, !.written = api.written]
      /\ pc' = IF g.fault THEN "trap" ELSE "done"
      /\ UNCHANGED <<status, returnData, extractCall, globals, direct,
                     history, threads, storage, logs>>

\* the tests keep at most MaxLogs entries in Logs
MayLog == Running /\ Len(logs) < MaxLogs

\* EmitEvent(data, topic1, topic2)
ApiEmitEvent ==
  MayLog /\ \E data \in EventData, topics \in TopicLists :
    /\ logs' = EmitEvent(logs, data, topics)
    /\ api' = [NoApi EXCEPT !.op = "EmitEvent", !.data = data,
                            !.topics = topics,
                            !.err = emitEventErr(data, topics),
                            !.logsBefore = logs, !.written = api.written]
    /\ pc' = "done"
    /\ UNCHANGED <<callData, status, returnData, extractCall, globals, direct,
                   history, threads, storage>>

\* mock.Logs = nil, as TestCounter does before each call
ClearLogs ==
  /\ Running
  /\ logs # <<>>
  /\ logs' = <<>>
  /\ api' = [api EXCEPT !.op = "ClearLogs"]
  /\ UNCHANGED <<pc, callData, status, returnData, extractCall, globals,
                 direct, history, threads, storage>>

\* the reference counter of the tests after a call with call data args:
\* INCREMENT gives previous + 1, DECREMENT max(previous - 1, 0), RESET 0, and
\* anything else leaves it
expectedAfter(args, previous) ==
  IF commandOf(args) = CMD_INCREMENT THEN previous + 1
  ELSE IF commandOf(args) = CMD_DECREMENT
       THEN (IF previous - 1 > 0 THEN previous - 1 ELSE 0)
  ELSE IF commandOf(args) = CMD_RESET THEN 0
  ELSE previous

\* mock.Args = tt.command; result := entrypoint().  The reference counter
\* is followed until it has passed the largest uint32.
CounterCall ==
  /\ MayLog
  /\ api.expected <= Uint32Mod
  /\ \E args \in CounterArgs :
       \E out \in counterEntrypoint(args, storage, logs) :
         /\ callData' = args
         /\ status' = out.status
         /\ pc' = IF out.fault THEN "trap" ELSE "done"
         /\ storage' = out.storage
         /\ logs' = out.logs
         /\ returnData' = IF out.wrote THEN SetReturnData(out.data) ELSE returnData
         /\ api' = [NoApi EXCEPT !.op = "counter", !.logsBefore = logs,
                                 !.resultBefore = returnData,
                                 !.before = getCounter(storage),
                                 !.expected = expectedAfter(args, api.expected),
                                 !.written = api.written]
         /\ UNCHANGED <<extractCall, globals, direct, history, threads>>

\* -------------------------------------------------------- specifications
\* the whole dispatcher
Next ==
  \/ EntryEmpty
  \/ EntryUnknown
  \/ EntryVerify
  \/ EntryAdaptorVerify
  \/ EntryExtract
  \/ EntryLiftX
  \/ EntryPointAdd
  \/ EntryPointMul
  \/ DirectExtract
Spec == Init /\ [][Next]_vars

\* verify alone
NextVerify == EntryVerify
SpecVerify == Init /\ [][NextVerify]_vars

\* adaptorVerify alone
NextAdaptor == EntryAdaptorVerify
SpecAdaptor == Init /\ [][NextAdaptor]_vars

\* extract, through its handler and directly
NextExtract == EntryExtract \/ DirectExtract
SpecExtract == Init /\ [][NextExtract]_vars

\* the group operations and liftXEvenY, called as the tests call them
NextGroup ==
  \/ DirectAdd
  \/ DirectDouble
  \/ DirectMul
  \/ DirectMulAgain
  \/ DirectLiftX
SpecGroup == Init /\ [][NextGroup]_vars

\* engine calls made one after the other in one process
NextSequence ==
  \/ SeqVerify
  \/ SeqAdaptorVerify
  \/ SeqExtract
  \/ SeqChallenge
SpecSequence == Init /\ [][NextSequence]_vars

\* engine calls running concurrently, one per thread
NextThreads ==
  \E t \in Threads :
    \/ ThreadStart(t)
    \/ ThreadMulStep(t)
    \/ ThreadMulReturn(t)
SpecThreads == Init /\ [][NextThreads]_vars

\* the storage of the mock runtime, as TestStorageRoundTrip uses it
NextStorage == ApiStorageStore \/ ApiStorageLoad
SpecStorage == Init /\ [][NextStorage]_vars

\* the word conversions, as TestWordConversions calls them
NextConvert == ApiUint64 \/ ApiAddress \/ ApiBigInt
SpecConvert == Init /\ [][NextConvert]_vars

\* call data and return data, as TestGetCallData and TestSetReturnData
NextIO == ApiSetReturnData \/ ApiGetCallData
SpecIO == Init /\ [][NextIO]_vars

\* events, as TestEmitEvent
NextEvents == ApiEmitEvent \/ ClearLogs
SpecEvents == Init /\ [][NextEvents]_vars

\* the counter contract, as TestCounter calls it
NextCounter == CounterCall \/ ClearLogs
SpecCounter == Init /\ [][NextCounter]_vars

\* ------------------------------------------------------- ERC20 contract
\* uint64 arithmetic wraps at 2^64; the width is scaled down so that the
\* balances reach it
Uint64Mod == 3

\* balancePrefix = Keccak256([]byte("balance"))
balancePrefix == Keccak256(<<98, 97, 108, 97, 110, 99, 101>>)

\* allowancePrefix = Keccak256([]byte("allowance"))
allowancePrefix == Keccak256(<<97, 108, 108, 111, 119, 97, 110, 99, 101>>)

\* Keccak256([]byte("caller")): the slot the contracts read the caller from
callerKey == Keccak256(<<99, 97, 108, 108, 101, 114>>)

\* caller := AddressFromWord(StorageLoad(callerKey))
msgSender(store) == AddressFromWord(StorageLoad(store, callerKey))

\* key := Keccak256(append(balancePrefix[:], addr[:]...))
balanceKey(addr) == Keccak256(balancePrefix \o addr)

\* getBalance reads the balance of addr
getBalance(store, addr) == Uint64FromWord(StorageLoad(store, balanceKey(addr)))

\* key := Keccak256(append(append(allowancePrefix[:], owner[:]...), spender[:]...))
allowanceKey(owner, spender) == Keccak256(allowancePrefix \o owner \o spender)

\* getAllowance reads what spender may still move out of owner's balance
getAllowance(store, owner, spender) ==
  Uint64FromWord(StorageLoad(store, allowanceKey(owner, spender)))

\* the sender is debited, then the recipient's balance is read and credited
moveBalance(store, from, fromBalance, to, amount) ==
  Only({StorageStore(debited, balanceKey(to),
                     WordFromUint64((getBalance(debited, to) + amount) % Uint64Mod)) :
        debited \in {StorageStore(store, balanceKey(from),
                                  WordFromUint64(fromBalance - amount))}})

\* transfer that reads the recipient's balance before it debits the sender
transferStaleRead(store, to, amount) ==
  Only({IF getBalance(store, caller) < amount
        THEN [err |-> "insufficient balance", storage |-> store]
        ELSE [err |-> "nil",
              storage |->
                StorageStore(
                  StorageStore(store, balanceKey(caller),
                               WordFromUint64(getBalance(store, caller) - amount)),
                  balanceKey(to),
                  WordFromUint64((getBalance(store, to) + amount) % Uint64Mod))] :
        caller \in {msgSender(store)}})

\* transfer that empties the sender's balance before it reports the error
transferDebitsFirst(store, to, amount) ==
  Only({IF getBalance(store, caller) < amount
        THEN [err |-> "insufficient balance",
              storage |-> StorageStore(store, balanceKey(caller), WordFromUint64(0))]
        ELSE [err |-> "nil",
              storage |-> moveBalance(store, caller, getBalance(store, caller),
                                      to, amount)] :
        caller \in {msgSender(store)}})

\* transfer moves amount from the caller to to
transfer(store, to, amount) ==
  Only({IF balance < amount
        THEN [err |-> "insufficient balance", storage |-> store]
        ELSE [err |-> "nil",
              storage |-> moveBalance(store, msgSender(store), balance, to, amount)] :
        balance \in {getBalance(store, msgSender(store))}})

\* approve sets what spender may move out of the caller's balance
approve(store, spender, amount) ==
  [err |-> "nil",
   storage |-> StorageStore(store, allowanceKey(msgSender(store), spender),
                            WordFromUint64(amount))]

\* transferFrom that leaves the allowance as it was
transferFromKeepsAllowance(store, from, to, amount) ==
  Only({IF getAllowance(store, from, caller) < amount
        THEN [err |-> "insufficient allowance", storage |-> store]
        ELSE IF getBalance(store, from) < amount
        THEN [err |-> "insufficient balance", storage |-> store]
        ELSE [err |-> "nil",
              storage |-> moveBalance(store, from, getBalance(store, from),
                                      to, amount)] :
        caller \in {msgSender(store)}})

\* transferFrom moves amount from from to to, out of the caller's allowance
transferFrom(store, from, to, amount) ==
  Only({IF allowance < amount
        THEN [err |-> "insufficient allowance", storage |-> store]
        ELSE IF fromBalance < amount
        THEN [err |-> "insufficient balance", storage |-> store]
        ELSE [err |-> "nil",
              storage |->
                moveBalance(StorageStore(store, allowanceKey(from, msgSender(store)),
                                         WordFromUint64(allowance - amount)),
                            from, fromBalance, to, amount)] :
        allowance \in {getAllowance(store, from, msgSender(store))},
        fromBalance \in {getBalance(store, from)}})

\* ------------------------------------------------- ERC20: inputs, actions
\* the addresses of TestERC20
TokenAddresses == {ownerAddress, spenderAddress, recipientAddress}

\* the callers TestERC20 stores in the caller slot
TokenCallers == {ownerAddress, spenderAddress}

\* every address that can hold a balance: an unset caller slot reads as the
\* zero address
TokenHolders == TokenAddresses \cup {ZeroBytes(AddressLen)}

\* every uint64
TokenAmounts == 0..(Uint64Mod - 1)

\* StorageStore(ownerBalanceKey, WordFromUint64(b)) for each address, as the
\* set-up of TestERC20 does for the owner
Funded(ownerBalance, spenderBalance, recipientBalance) ==
  StorageStore(
    StorageStore(
      StorageStore(NoStorage, balanceKey(ownerAddress), WordFromUint64(ownerBalance)),
      balanceKey(spenderAddress), WordFromUint64(spenderBalance)),
    balanceKey(recipientAddress), WordFromUint64(recipientBalance))

\* the balances a deployment can hand out, their sum being the total supply,
\* a uint64, and the caller slot set as TestERC20 sets it before the calls
TokenStores ==
  {StorageStore(Funded(t[1], t[2], t[3]), callerKey, PadAddress(caller)) :
     t \in {t \in TokenAmounts \X TokenAmounts \X TokenAmounts :
              t[1] + t[2] + t[3] < Uint64Mod},
     caller \in TokenCallers}

\* the state after the set-up of TestERC20
InitToken ==
  /\ pc = "entrypoint"
  /\ callData = <<>>
  /\ status = Nil
  /\ returnData = NoData
  /\ extractCall = NoCall
  /\ globals = Globals0
  /\ direct = NoDirect
  /\ history = <<>>
  /\ threads = [t \in Threads |-> NoThread]
  /\ storage \in TokenStores
  /\ logs = <<>>
  /\ api = NoApi

\* grants after approve(spender, amount) by granter: what was approved and
\* what the spender moved since
Granted(grants, granter, grantee, amount) ==
  [pair \in DOMAIN grants \cup {<<granter, grantee>>} |->
     IF pair = <<granter, grantee>> THEN [approved |-> amount, moved |-> 0]
     ELSE grants[pair]]

\* grants after grantee moved amount out of granter's balance; an amount of
\* 0 moves nothing
Moved(grants, granter, grantee, amount) ==
  IF amount = 0 THEN grants
  ELSE [pair \in DOMAIN grants \cup {<<granter, grantee>>} |->
          IF pair # <<granter, grantee>> THEN grants[pair]
          ELSE IF pair \in DOMAIN grants
               THEN [grants[pair] EXCEPT !.moved = @ + amount]
               ELSE [approved |-> 0, moved |-> amount]]

\* StorageStore(callerKey, PadAddress(caller))
TokenSetCaller ==
  Running /\ \E caller \in TokenCallers :
    /\ storage' = StorageStore(storage, callerKey, PadAddress(caller))
    /\ api' = [NoApi EXCEPT !.op = "setCaller", !.store = storage,
                            !.grants = api.grants]
    /\ pc' = "done"
    /\ UNCHANGED <<callData, status, returnData, extractCall, globals, direct,
                   history, threads, logs>>

\* err := transfer(to, amount)
TokenTransfer ==
  Running /\ \E to \in TokenAddresses, amount \in TokenAmounts :
    \E out \in {transfer(storage, to, amount)} :
      /\ storage' = out.storage
      /\ api' = [NoApi EXCEPT !.op = "transfer", !.err = out.err,
                              !.store = storage,
                              !.arg = [caller |-> msgSender(storage),
                                       from |-> msgSender(storage),
                                       to |-> to, amount |-> amount],
                              !.grants = api.grants]
      /\ pc' = "done"
      /\ UNCHANGED <<callData, status, returnData, extractCall, globals, direct,
                     history, threads, logs>>

\* err := approve(spender, amount), called by the owner
TokenApprove ==
  Running /\ msgSender(storage) = ownerAddress /\ \E amount \in TokenAmounts :
    \E out \in {approve(storage, spenderAddress, amount)} :
      /\ storage' = out.storage
      /\ api' = [NoApi EXCEPT !.op = "approve", !.err = out.err,
                              !.store = storage,
                              !.arg = [caller |-> msgSender(storage),
                                       from |-> msgSender(storage),
                                       to |-> spenderAddress, amount |-> amount],
                              !.grants = Granted(api.grants, msgSender(storage),
                                                 spenderAddress, amount)]
      /\ pc' = "done"
      /\ UNCHANGED <<callData, status, returnData, extractCall, globals, direct,
                     history, threads, logs>>

\* err := transferFrom(from, to, amount)
TokenTransferFrom ==
  Running /\ \E from \in TokenAddresses, to \in TokenAddresses,
                amount \in TokenAmounts :
    \E out \in {transferFrom(storage, from, to, amount)} :
      /\ storage' = out.storage
      /\ api' = [NoApi EXCEPT !.op = "transferFrom", !.err = out.err,
                              !.store = storage,
                              !.arg = [caller |-> msgSender(storage),
                                       from |-> from, to |-> to,
                                       amount |-> amount],
                              !.grants = IF out.err = "nil"
                                         THEN Moved(api.grants, from,
                                                    msgSender(storage), amount)
                                         ELSE api.grants]
      /\ pc' = "done"
      /\ UNCHANGED <<callData, status, returnData, extractCall, globals, direct,
                     history, threads, logs>>

\* the ERC20 contract, as TestERC20 calls it
NextToken ==
  \/ TokenSetCaller
  \/ TokenTransfer
  \/ TokenApprove
  \/ TokenTransferFrom
SpecToken == InitToken /\ [][NextToken]_vars

\* --------------------------------------------------------- NFT contract
NFT_CMD_INITIALIZE == 0
NFT_CMD_MINT == 1
NFT_CMD_TRANSFER == 2
NFT_CMD_APPROVE == 3
NFT_CMD_TRANSFER_FROM == 4

\* totalSupplyKey = Keccak256([]byte("totalSupply"))
totalSupplyKey == Keccak256(<<116, 111, 116, 97, 108, 83, 117, 112, 112, 108, 121>>)

\* nameKey = Keccak256([]byte("name")), symbolKey = Keccak256([]byte("symbol"))
nameKey == Keccak256(<<110, 97, 109, 101>>)
symbolKey == Keccak256(<<115, 121, 109, 98, 111, 108>>)

\* ownerPrefix = Keccak256([]byte("owner"))
ownerPrefix == Keccak256(<<111, 119, 110, 101, 114>>)

\* approvalPrefix = Keccak256([]byte("approval"))
approvalPrefix == Keccak256(<<97, 112, 112, 114, 111, 118, 97, 108>>)

\* getCaller: for now, return a mock address
getCaller == ZeroBytes(AddressLen)

getOwnerKey(tokenId) == Keccak256(ownerPrefix \o PutUint(tokenId, 8))
getBalanceKey(holder) == Keccak256(balancePrefix \o holder)
getApprovalKey(tokenId) == Keccak256(approvalPrefix \o PutUint(tokenId, 8))

\* emitTransfer: Keccak256([]byte("Transfer(address,address,uint64)")) is
\* the topic
emitTransfer(entries, from, to, tokenId) ==
  EmitEvent(entries, from \o to \o PutUint(tokenId, 8),
            <<Keccak256(<<84, 114, 97, 110, 115, 102, 101, 114, 40, 97, 100, 100,
                          114, 101, 115, 115, 44, 97, 100, 100, 114, 101, 115,
                          115, 44, 117, 105, 110, 116, 54, 52, 41>>)>>)

\* emitApproval: Keccak256([]byte("Approval(address,address,uint64)")) is
\* the topic
emitApproval(entries, holder, approved, tokenId) ==
  EmitEvent(entries, holder \o approved \o PutUint(tokenId, 8),
            <<Keccak256(<<65, 112, 112, 114, 111, 118, 97, 108, 40, 97, 100, 100,
                          114, 101, 115, 115, 44, 97, 100, 100, 114, 101, 115,
                          115, 44, 117, 105, 110, 116, 54, 52, 41>>)>>)

\* what a handler leaves: its return code, the storage and the logs
Handled(code, store, entries) ==
  [status |-> code, storage |-> store, logs |-> entries]

\* handleInitialize of the NFT contract stores name and symbol and sets the
\* total supply to 0
nftInitialize(store, entries, args) ==
  IF Len(args) < 2 THEN Handled(1, store, entries)
  ELSE IF Len(args) < 2 + args[1] + args[2] THEN Handled(1, store, entries)
  ELSE Handled(0,
         StorageStore(
           StorageStore(
             StorageStore(store, nameKey,
                          WordFromBigInt(SetBytes(SubSeq(args, 3, 2 + args[1])))),
             symbolKey,
             WordFromBigInt(SetBytes(SubSeq(args, 3 + args[1],
                                            2 + args[1] + args[2])))),
           totalSupplyKey, WordFromUint64(0)),
         entries)

\* the balance of holder becomes its balance plus delta, in uint64
addBalance(store, holder, delta) ==
  StorageStore(store, getBalanceKey(holder),
               WordFromUint64((Uint64FromWord(StorageLoad(store, getBalanceKey(holder)))
                               + delta) % Uint64Mod))

\* handleMint mints a new NFT
handleMint(store, entries, args) ==
  IF Len(args) < 20 THEN Handled(1, store, entries)
  ELSE Only({
         Handled(0,
           StorageStore(
             addBalance(StorageStore(store, getOwnerKey(tokenId), PadAddress(to)),
                        to, 1),
             totalSupplyKey, WordFromUint64(tokenId)),
           emitTransfer(entries, ZeroBytes(AddressLen), to, tokenId)) :
         to \in {SubSeq(args, 1, 20)},
         tokenId \in {(Uint64FromWord(StorageLoad(store, totalSupplyKey)) + 1)
                      % Uint64Mod}})

\* Update owner, Update balances, Clear approval, Emit event: the end of
\* handleTransfer and of handleTransferFrom
moveToken(store, entries, from, to, tokenId) ==
  Handled(0,
    StorageStore(
      addBalance(
        addBalance(StorageStore(store, getOwnerKey(tokenId), PadAddress(to)),
                   from, Uint64Mod - 1),
        to, 1),
      getApprovalKey(tokenId), WordFromUint64(0)),
    emitTransfer(entries, from, to, tokenId))

\* handleTransfer transfers an NFT
handleTransfer(store, entries, args) ==
  IF Len(args) < 40 THEN Handled(1, store, entries)
  ELSE Only({
         IF currentOwner # getCaller THEN Handled(1, store, entries)
         ELSE moveToken(store, entries, currentOwner, SubSeq(args, 1, 20), tokenId) :
         tokenId \in {Uint(SubSeq(args, 21, 28))},
         currentOwner \in {AddressFromWord(
                             StorageLoad(store, getOwnerKey(Uint(SubSeq(args, 21, 28)))))}})

\* handleApprove approves an address to transfer an NFT
handleApprove(store, entries, args) ==
  IF Len(args) < 28 THEN Handled(1, store, entries)
  ELSE Only({
         IF holder # getCaller THEN Handled(1, store, entries)
         ELSE Handled(0,
                StorageStore(store, getApprovalKey(tokenId),
                             PadAddress(SubSeq(args, 1, 20))),
                emitApproval(entries, holder, SubSeq(args, 1, 20), tokenId)) :
         tokenId \in {Uint(SubSeq(args, 21, 28))},
         holder \in {AddressFromWord(
                       StorageLoad(store, getOwnerKey(Uint(SubSeq(args, 21, 28)))))}})

\* handleTransferFrom transfers an NFT from one address to another
handleTransferFrom(store, entries, args) ==
  IF Len(args) < 60 THEN Handled(1, store, entries)
  ELSE Only({
         IF holder # SubSeq(args, 1, 20) THEN Handled(1, store, entries)
         ELSE IF getCaller # AddressFromWord(StorageLoad(store, getApprovalKey(tokenId)))
                 /\ getCaller # holder
         THEN Handled(1, store, entries)
         ELSE moveToken(store, entries, SubSeq(args, 1, 20), SubSeq(args, 21, 40),
                        tokenId) :
         tokenId \in {Uint(SubSeq(args, 41, 48))},
         holder \in {AddressFromWord(
                       StorageLoad(store, getOwnerKey(Uint(SubSeq(args, 41, 48)))))}})

\* the switch of the NFT contract's entrypoint on the commands that change
\* owners, balances, approvals and the total supply
nftDispatch(store, entries, data) ==
  IF data[1] = NFT_CMD_INITIALIZE THEN nftInitialize(store, entries, Tail(data))
  ELSE IF data[1] = NFT_CMD_MINT THEN handleMint(store, entries, Tail(data))
  ELSE IF data[1] = NFT_CMD_TRANSFER THEN handleTransfer(store, entries, Tail(data))
  ELSE IF data[1] = NFT_CMD_APPROVE THEN handleApprove(store, entries, Tail(data))
  ELSE IF data[1] = NFT_CMD_TRANSFER_FROM
       THEN handleTransferFrom(store, entries, Tail(data))
  ELSE Handled(1, store, entries)

\* entrypoint of the NFT contract, called with Args = args: what it may leave
nftEntrypoint(args, store, entries) ==
  { IF g.fault THEN [status |-> Nil, fault |-> TRUE, storage |-> store, logs |-> entries]
    ELSE IF g.err # "nil" \/ Len(g.data) < 1
    THEN [status |-> 1, fault |-> FALSE, storage |-> store, logs |-> entries]
    ELSE Only({[status |-> h.status, fault |-> FALSE, storage |-> h.storage,
                logs |-> h.logs] : h \in {nftDispatch(store, entries, g.data)}})
    : g \in GetCallData(args) }

\* --------------------------------------------------- NFT: inputs, actions
\* the token ids of the calls
TokenIds == 1..(Uint64Mod - 1)

\* the total supply read from storage
totalSupplyOf(store) == Uint64FromWord(StorageLoad(store, totalSupplyKey))

\* the address the call debits when it is a TRANSFER or a TRANSFER_FROM
debited(store, args) ==
  IF args[1] = NFT_CMD_TRANSFER
  THEN AddressFromWord(StorageLoad(store, getOwnerKey(Uint(SubSeq(args, 22, 29)))))
  ELSE SubSeq(args, 2, 21)

\* the call data: INITIALIZE("N", "S"), MINT(to), TRANSFER(to, id) padded to
\* 40 bytes, APPROVE(to, id), TRANSFER_FROM(from, to, id) padded to 60 bytes
NftArgs ==
  {<<NFT_CMD_INITIALIZE, 1, 1, 78, 83>>}
  \cup {<<NFT_CMD_MINT>> \o to : to \in TokenCallers}
  \cup {<<NFT_CMD_TRANSFER>> \o spenderAddress \o PutUint(id, 8) \o ZeroBytes(12) :
          id \in TokenIds}
  \cup {<<NFT_CMD_APPROVE>> \o spenderAddress \o PutUint(id, 8) : id \in TokenIds}
  \cup {<<NFT_CMD_TRANSFER_FROM>> \o from \o to \o PutUint(id, 8) \o ZeroBytes(12) :
          from \in {ownerAddress, ZeroBytes(AddressLen)},
          to \in TokenCallers, id \in TokenIds}

\* mock.Logs = nil; mock.Args = args; result := entrypoint().  Tokens are
\* minted until the total supply is the largest uint64.
NftCall ==
  /\ Running
  /\ \E args \in NftArgs :
       /\ args[1] = NFT_CMD_MINT => totalSupplyOf(storage) + 1 < Uint64Mod
       /\ \E out \in nftEntrypoint(args, storage, <<>>) :
            /\ callData' = args
            /\ status' = out.status
            /\ pc' = IF out.fault THEN "trap" ELSE "done"
            /\ storage' = out.storage
            /\ logs' = out.logs
            /\ api' = [NoApi EXCEPT
                         !.op = "nft",
                         !.before =
                           IF args[1] \in {NFT_CMD_TRANSFER, NFT_CMD_TRANSFER_FROM}
                           THEN Uint64FromWord(
                                  StorageLoad(storage,
                                              getBalanceKey(debited(storage, args))))
                           ELSE 0]
            /\ UNCHANGED <<returnData, extractCall, globals, direct, history,
                           threads>>

\* the NFT contract
NextNft == NftCall
SpecNft == Init /\ [][NextNft]_vars

\* ---------------------------------------------------- multisig contract
MULTISIG_CMD_INITIALIZE == 0
MULTISIG_CMD_SUBMIT_PROPOSAL == 1
MULTISIG_CMD_APPROVE_PROPOSAL == 2

\* ownersKey = Keccak256([]byte("owners")), thresholdKey, nonceKey and
\* proposalPrefix likewise; approvalPrefix is that of the NFT contract
ownersKey == Keccak256(<<111, 119, 110, 101, 114, 115>>)
thresholdKey == Keccak256(<<116, 104, 114, 101, 115, 104, 111, 108, 100>>)
nonceKey == Keccak256(<<110, 111, 110, 99, 101>>)
proposalPrefix == Keccak256(<<112, 114, 111, 112, 111, 115, 97, 108>>)

\* handleInitialize initializes the multisig with owners and threshold
multisigInitialize(store, entries, args) ==
  IF Len(args) < 1 THEN Handled(1, store, entries)
  ELSE IF args[1] = 0 \/ args[1] > 10 THEN Handled(1, store, entries)
  ELSE Only({
         IF ownersCount = 0 \/ ownersCount > 10 THEN Handled(1, store, entries)
         ELSE Handled(0,
                StorageStore(
                  StorageStore(
                    StorageStore(store, thresholdKey, WordFromUint64(args[1])),
                    ownersKey,
                    WordFromBigInt(SetBytes(SubSeq(args, 2, 1 + (ownersCount * 32))))),
                  nonceKey, WordFromUint64(0)),
                entries) :
         ownersCount \in {(Len(args) - 1) \div 32}})

\* isOwner: whether addr is in the owners list
isOwner(store, addr) ==
  Only({\E slot \in 0..(Len(ownersData) \div 32) :
          /\ slot * 32 < Len(ownersData)
          /\ (slot * 32) + 20 <= Len(ownersData)
          /\ SubSeq(ownersData, (slot * 32) + 1, (slot * 32) + 20) = addr :
        ownersData \in {BigIntFromWord(StorageLoad(store, ownersKey))}})

getNonce(store) == Uint64FromWord(StorageLoad(store, nonceKey))
getProposalKey(nonce) == Keccak256(proposalPrefix \o PutUint(nonce, 8))

\* getApprovalKey of the multisig contract
getProposalApprovalKey(nonce, holder) ==
  Keccak256(approvalPrefix \o PutUint(nonce, 4) \o holder)

\* storeProposal: the serialized proposal goes through a big.Int into one word
storeProposal(store, key, proposal) ==
  StorageStore(store, key,
    WordFromBigInt(SetBytes(proposal.To \o proposal.Value \o <<Len(proposal.Data)>>
                            \o proposal.Data
                            \o <<IF proposal.Executed THEN 1 ELSE 0>>)))

\* no proposal
NoProposal ==
  [exists |-> FALSE, To |-> ZeroBytes(AddressLen), Value |-> ZeroWord,
   Data |-> <<>>, Executed |-> FALSE]

\* getProposal: the proposal stored under key and whether it exists
getProposal(store, key) ==
  IF StorageLoad(store, key) = ZeroWord THEN NoProposal
  ELSE Only({
         IF Len(data) < 53 THEN NoProposal
         ELSE IF Len(data) < 53 + data[53] + 1 THEN NoProposal
         ELSE [exists |-> TRUE, To |-> SubSeq(data, 1, 20),
               Value |-> SubSeq(data, 21, 52),
               Data |-> SubSeq(data, 54, 53 + data[53]),
               Executed |-> data[53 + data[53] + 1] = 1] :
         data \in {BigIntFromWord(StorageLoad(store, key))}})

\* hasApproval: the approval word is not zero
hasApproval(store, key) == StorageLoad(store, key) # ZeroWord

\* handleSubmitProposal submits a new proposal
handleSubmitProposal(store, entries, args) ==
  IF Len(args) < 84 THEN Handled(1, store, entries)
  ELSE IF ~isOwner(store, getCaller) THEN Handled(1, store, entries)
  ELSE IF Len(args) < 53 + args[53] THEN Handled(1, store, entries)
  ELSE Handled(0,
         StorageStore(
           storeProposal(store, getProposalKey(getNonce(store)),
                         [To |-> SubSeq(args, 1, 20), Value |-> SubSeq(args, 21, 52),
                          Data |-> SubSeq(args, 54, 53 + args[53]),
                          Executed |-> FALSE]),
           nonceKey, WordFromUint64((getNonce(store) + 1) % Uint64Mod)),
         EmitEvent(entries,
                   PutUint(getNonce(store), 8) \o getCaller \o SubSeq(args, 1, 20),
                   <<Keccak256(<<80, 114, 111, 112, 111, 115, 97, 108, 83, 117, 98, 109, 105, 116, 116, 101, 100, 40, 117, 105, 110, 116, 54, 52, 44, 97, 100, 100, 114, 101, 115, 115, 44, 97, 100, 100, 114, 101, 115, 115, 41>>)>>))

\* handleApproveProposal approves a proposal with Schnorr signature: the
\* signature is not verified, its length is checked
handleApproveProposal(store, entries, args) ==
  IF Len(args) < 33 THEN Handled(1, store, entries)
  ELSE IF ~isOwner(store, getCaller) THEN Handled(1, store, entries)
  ELSE Only({
         IF ~proposal.exists THEN Handled(1, store, entries)
         ELSE IF proposal.Executed THEN Handled(1, store, entries)
         ELSE IF Len(args) < 5 + args[5] THEN Handled(1, store, entries)
         ELSE IF args[5] # 64 THEN Handled(1, store, entries)
         ELSE IF hasApproval(store, getProposalApprovalKey(nonce, getCaller))
         THEN Handled(1, store, entries)
         ELSE Handled(0,
                StorageStore(store, getProposalApprovalKey(nonce, getCaller),
                             WordFromUint64(1)),
                EmitEvent(entries, PutUint(nonce, 4) \o getCaller,
                          <<Keccak256(<<80, 114, 111, 112, 111, 115, 97, 108, 65, 112, 112, 114, 111, 118, 101, 100, 40, 117, 105, 110, 116, 51, 50, 44, 97, 100, 100, 114, 101, 115, 115, 41>>)>>)) :
         nonce \in {Uint(SubSeq(args, 1, 4))},
         proposal \in {getProposal(store, getProposalKey(Uint(SubSeq(args, 1, 4))))}})

\* the switch of the multisig contract's entrypoint on the commands that
\* set the owners and record proposals and approvals
multisigDispatch(store, entries, data) ==
  IF data[1] = MULTISIG_CMD_INITIALIZE
  THEN multisigInitialize(store, entries, Tail(data))
  ELSE IF data[1] = MULTISIG_CMD_SUBMIT_PROPOSAL
  THEN handleSubmitProposal(store, entries, Tail(data))
  ELSE IF data[1] = MULTISIG_CMD_APPROVE_PROPOSAL
  THEN handleApproveProposal(store, entries, Tail(data))
  ELSE Handled(1, store, entries)

\* entrypoint of the multisig contract, called with Args = args
multisigEntrypoint(args, store, entries) ==
  { IF g.fault THEN [status |-> Nil, fault |-> TRUE, storage |-> store, logs |-> entries]
    ELSE IF g.err # "nil" \/ Len(g.data) < 1
    THEN [status |-> 1, fault |-> FALSE, storage |-> store, logs |-> entries]
    ELSE Only({[status |-> h.status, fault |-> FALSE, storage |-> h.storage,
                logs |-> h.logs] : h \in {multisigDispatch(store, entries, g.data)}})
    : g \in GetCallData(args) }

\* ---------------------------------------------- multisig: inputs, actions
\* an address whose first byte is 0
smallAddress == [i \in 1..AddressLen |-> IF i = AddressLen THEN 1 ELSE 0]

\* the addresses asked of isOwner
OwnerSample ==
  {ownerAddress, spenderAddress, recipientAddress, smallAddress,
   ZeroBytes(AddressLen)}

\* owners, each 32 bytes: 20-byte address + 12 bytes padding
RECURSIVE ownersBytes(_)
ownersBytes(list) ==
  IF list = <<>> THEN <<>>
  ELSE list[1] \o ZeroBytes(12) \o ownersBytes(Tail(list))

\* the owners lists: of one, two and three owners, of ten and of eleven
OwnerLists ==
  {<<ownerAddress>>, <<spenderAddress>>, <<smallAddress>>,
   <<ZeroBytes(AddressLen)>>,
   <<ownerAddress, spenderAddress>>, <<spenderAddress, ownerAddress>>,
   <<ownerAddress, spenderAddress, recipientAddress>>,
   [i \in 1..10 |-> IF i % 2 = 1 THEN ownerAddress ELSE recipientAddress],
   [i \in 1..11 |-> ownerAddress]}

\* the call data: INITIALIZE(threshold, owners), SUBMIT_PROPOSAL(to, value,
\* data of 31 bytes) and APPROVE_PROPOSAL(nonce, signature of 64 or 63 bytes)
MultisigArgs ==
  {<<MULTISIG_CMD_INITIALIZE, threshold>> \o ownersBytes(list) :
     threshold \in {0, 1, 2}, list \in OwnerLists}
  \cup {<<MULTISIG_CMD_SUBMIT_PROPOSAL>> \o recipientAddress \o WordFromUint64(1)
          \o <<31>> \o ZeroBytes(31)}
  \cup {<<MULTISIG_CMD_APPROVE_PROPOSAL>> \o PutUint(0, 4) \o <<n>>
          \o [i \in 1..n |-> i] : n \in {63, 64}}

\* the owners list of an INITIALIZE call, each owner's 20 bytes
ownersOf(args) ==
  {SubSeq(args, 3 + (32 * slot), 22 + (32 * slot)) :
     slot \in 0..(((Len(args) - 2) \div 32) - 1)}

\* mock.Logs = nil; mock.Args = args; result := entrypoint()
MultisigCall ==
  /\ Running
  /\ \E args \in MultisigArgs :
       \E out \in multisigEntrypoint(args, storage, <<>>) :
         /\ callData' = args
         /\ status' = out.status
         /\ pc' = IF out.fault THEN "trap" ELSE "done"
         /\ storage' = out.storage
         /\ logs' = out.logs
         /\ api' = [NoApi EXCEPT !.op = "multisig", !.store = storage]
         /\ UNCHANGED <<returnData, extractCall, globals, direct, history,
                        threads>>

\* the multisig contract
NextMultisig == MultisigCall
SpecMultisig == Init /\ [][NextMultisig]_vars

\* ------------------------------------------------------ voting contract
VOTING_CMD_INITIALIZE == 0
VOTING_CMD_CREATE_PROPOSAL == 1
VOTING_CMD_GET_PROPOSAL == 4

\* at most MaxProposals proposals are created
MaxProposals == 2

\* votingPeriodKey = Keccak256([]byte("votingPeriod")), quorumKey and
\* proposalCountKey likewise; proposalPrefix and getProposalKey are those of
\* the multisig contract
votingPeriodKey == Keccak256(<<118, 111, 116, 105, 110, 103, 80, 101, 114, 105, 111, 100>>)
quorumKey == Keccak256(<<113, 117, 111, 114, 117, 109>>)
proposalCountKey == Keccak256(<<112, 114, 111, 112, 111, 115, 97, 108, 67, 111, 117, 110, 116>>)

\* the bytes in reverse order
Reverse(bytes) == [i \in 1..Len(bytes) |-> bytes[Len(bytes) + 1 - i]]

\* mock_block_number: binary.LittleEndian.PutUint64(valueBuf, Block)
mock_block_number(block) == Reverse(PutUint(block, 8))

\* GetBlockNumber returns the current block number
GetBlockNumber(block) == Uint(Reverse(mock_block_number(block)))

\* what a handler leaves when it panics
HandlerPanic(store, entries) ==
  [status |-> Nil, storage |-> store, logs |-> entries, fault |-> TRUE]

\* handleInitialize of the voting contract: 8 bytes are required and 16 are
\* read
votingInitialize(store, entries, args) ==
  IF Len(args) < 8 THEN Handled(1, store, entries)
  ELSE IF Len(args) < 16 THEN HandlerPanic(store, entries)
  ELSE Handled(0,
         StorageStore(
           StorageStore(
             StorageStore(store, votingPeriodKey,
                          WordFromUint64(Uint(SubSeq(args, 1, 8)))),
             quorumKey, WordFromUint64(Uint(SubSeq(args, 9, 16)))),
           proposalCountKey, WordFromUint64(0)),
         entries)

\* Serialize proposal
serialized(proposal) ==
  proposal.Proposer \o PutUint(proposal.StartBlock, 8)
  \o PutUint(proposal.EndBlock, 8) \o PutUint(proposal.ForVotes, 8)
  \o PutUint(proposal.AgainstVotes, 8) \o PutUint(proposal.AbstainVotes, 8)
  \o <<IF proposal.Executed THEN 1 ELSE 0>>
  \o <<Len(proposal.Description) % 256>> \o proposal.Description

\* storeProposal of the voting contract
storeVotingProposal(store, key, proposal) ==
  StorageStore(store, key, WordFromBigInt(SetBytes(serialized(proposal))))

\* Proposal{}
NoVotingProposal ==
  [Proposer |-> ZeroBytes(AddressLen), StartBlock |-> 0, EndBlock |-> 0,
   ForVotes |-> 0, AgainstVotes |-> 0, AbstainVotes |-> 0, Executed |-> FALSE,
   Description |-> <<>>]

\* getProposal of the voting contract: the proposal, whether it exists, and
\* whether reading it went out of range
getVotingProposal(store, key) ==
  IF StorageLoad(store, key) = ZeroWord
  THEN [exists |-> FALSE, fault |-> FALSE, proposal |-> NoVotingProposal]
  ELSE Only({
         IF Len(data) < 53
         THEN [exists |-> FALSE, fault |-> FALSE, proposal |-> NoVotingProposal]
         ELSE IF Len(data) < 62
         THEN [exists |-> FALSE, fault |-> TRUE, proposal |-> NoVotingProposal]
         ELSE IF Len(data) < 62 + data[62]
         THEN [exists |-> FALSE, fault |-> FALSE, proposal |-> NoVotingProposal]
         ELSE [exists |-> TRUE, fault |-> FALSE,
               proposal |->
                 [Proposer |-> SubSeq(data, 1, 20),
                  StartBlock |-> Uint(SubSeq(data, 21, 28)),
                  EndBlock |-> Uint(SubSeq(data, 29, 36)),
                  ForVotes |-> Uint(SubSeq(data, 37, 44)),
                  AgainstVotes |-> Uint(SubSeq(data, 45, 52)),
                  AbstainVotes |-> Uint(SubSeq(data, 53, 60)),
                  Executed |-> data[61] = 1,
                  Description |-> SubSeq(data, 63, 62 + data[62])]] :
         data \in {BigIntFromWord(StorageLoad(store, key))}})

\* the proposal handleCreateProposal creates at block currentBlock
created(store, args, currentBlock) ==
  [Proposer |-> getCaller,
   StartBlock |-> currentBlock,
   EndBlock |-> currentBlock + Uint64FromWord(StorageLoad(store, votingPeriodKey)),
   ForVotes |-> 0, AgainstVotes |-> 0, AbstainVotes |-> 0, Executed |-> FALSE,
   Description |-> SubSeq(args, 2, 1 + args[1])]

\* handleCreateProposal creates a new proposal
handleCreateProposal(store, entries, args, block) ==
  IF Len(args) < 1 THEN Handled(1, store, entries)
  ELSE IF Len(args) < 1 + args[1] THEN Handled(1, store, entries)
  ELSE Only({
         Handled(0,
           StorageStore(
             storeVotingProposal(store, getProposalKey(proposalId),
                                 created(store, args, GetBlockNumber(block))),
             proposalCountKey, WordFromUint64(proposalId)),
           EmitEvent(entries,
                     PutUint(proposalId, 8) \o getCaller \o SubSeq(args, 2, 1 + args[1]),
                     <<Keccak256(<<80, 114, 111, 112, 111, 115, 97, 108, 67, 114, 101, 97, 116, 101, 100, 40, 117, 105, 110, 116, 54, 52, 44, 97, 100, 100, 114, 101, 115, 115, 44, 98, 121, 116, 101, 115, 41>>)>>)) :
         proposalId \in {Uint64FromWord(StorageLoad(store, proposalCountKey)) + 1}})

\* handleGetProposal returns proposal data
handleGetProposal(store, args) ==
  IF Len(args) < 8 THEN [status |-> 1, fault |-> FALSE, data |-> NoData]
  ELSE Only({
         IF found.fault THEN [status |-> Nil, fault |-> TRUE, data |-> NoData]
         ELSE IF ~found.exists THEN [status |-> 1, fault |-> FALSE, data |-> NoData]
         ELSE [status |-> 0, fault |-> FALSE, data |-> serialized(found.proposal)] :
         found \in {getVotingProposal(store, getProposalKey(Uint(SubSeq(args, 1, 8))))}})

\* the switch of the voting contract's entrypoint on the commands that
\* create and return proposals, at block block
votingDispatch(store, entries, data, block) ==
  IF data[1] = VOTING_CMD_INITIALIZE
  THEN votingInitialize(store, entries, Tail(data)) @@ [fault |-> FALSE, data |-> NoData]
  ELSE IF data[1] = VOTING_CMD_CREATE_PROPOSAL
  THEN handleCreateProposal(store, entries, Tail(data), block)
       @@ [fault |-> FALSE, data |-> NoData]
  ELSE IF data[1] = VOTING_CMD_GET_PROPOSAL
  THEN handleGetProposal(store, Tail(data)) @@ [storage |-> store, logs |-> entries]
  ELSE [status |-> 1, fault |-> FALSE, data |-> NoData, storage |-> store,
        logs |-> entries]

\* entrypoint of the voting contract, called with Args = args at block block
votingEntrypoint(args, store, entries, block) ==
  { IF g.fault
    THEN [status |-> Nil, fault |-> TRUE, data |-> NoData, storage |-> store,
          logs |-> entries]
    ELSE IF g.err # "nil" \/ Len(g.data) < 1
    THEN [status |-> 1, fault |-> FALSE, data |-> NoData, storage |-> store,
          logs |-> entries]
    ELSE votingDispatch(store, entries, g.data, block)
    : g \in GetCallData(args) }

\* ------------------------------------------------ voting: inputs, actions
\* the descriptions: none, one byte, and 40 bytes
Descriptions == {<<>>, <<97>>, [i \in 1..40 |-> i]}

\* the call data: INITIALIZE(votingPeriod, quorum), with 16 and with 8
\* bytes, CREATE_PROPOSAL(description) and GET_PROPOSAL(id)
VotingArgs ==
  {<<VOTING_CMD_INITIALIZE>> \o PutUint(period, 8) \o PutUint(1, 8) : period \in {0, 5}}
  \cup {<<VOTING_CMD_INITIALIZE>> \o PutUint(5, 8)}
  \cup {<<VOTING_CMD_CREATE_PROPOSAL, Len(d)>> \o d : d \in Descriptions}
  \cup {<<VOTING_CMD_GET_PROPOSAL>> \o PutUint(id, 8) : id \in 1..MaxProposals}

\* the proposal count read from storage
proposalCountOf(store) == Uint64FromWord(StorageLoad(store, proposalCountKey))

\* mock.Block = block; mock.Logs = nil; mock.Args = args;
\* result := entrypoint()
VotingCall ==
  /\ Running
  /\ \E args \in VotingArgs, block \in {1, 7} :
       /\ args[1] = VOTING_CMD_CREATE_PROPOSAL
            => proposalCountOf(storage) < MaxProposals
       /\ \E out \in votingEntrypoint(args, storage, <<>>, block) :
            /\ callData' = args
            /\ status' = out.status
            /\ pc' = IF out.fault THEN "trap" ELSE "done"
            /\ storage' = out.storage
            /\ logs' = out.logs
            /\ returnData' = IF out.data = NoData THEN returnData
                             ELSE SetReturnData(out.data)
            /\ api' = [NoApi EXCEPT
                         !.op = "voting", !.store = storage,
                         !.before = proposalCountOf(storage),
                         !.expected =
                           IF args[1] = VOTING_CMD_CREATE_PROPOSAL
                           THEN created(storage, Tail(args), block)
                           ELSE NoVotingProposal]
            /\ UNCHANGED <<extractCall, globals, direct, history, threads>>

\* the voting contract
NextVoting == VotingCall
SpecVoting == Init /\ [][NextVoting]_vars

\* =========================================================================
\* Reference group: the curve group written independently of add, double,
\* mul and liftXEvenY.  A point is tagged, not a sentinel pair; the group is
\* cyclic of prime order N, so every point is k*G for one k in 0..N-1.
\* =========================================================================
RefInf == [inf |-> TRUE, x |-> 0, y |-> 0]
RefPt(x, y) == [inf |-> FALSE, x |-> x, y |-> y]

\* a^n mod P; a^(P-2) is the field inverse of a # 0
RECURSIVE RefPow(_, _)
RefPow(a, n) ==
  IF n = 0 THEN 1
  ELSE IF n % 2 = 1 THEN (a * RefPow(a, n - 1)) % P
  ELSE RefPow((a * a) % P, n \div 2)

\* the textbook chord-and-tangent law on points with coordinates in [0, P)
RefAdd(p, q) ==
  IF p.inf THEN q
  ELSE IF q.inf THEN p
  ELSE IF p.x = q.x /\ (p.y + q.y) % P = 0 THEN RefInf
  ELSE LET l == IF p.x = q.x
                THEN (3 * p.x * p.x * RefPow((2 * p.y) % P, P - 2)) % P
                ELSE ((q.y - p.y) * RefPow((q.x - p.x) % P, P - 2)) % P
           x3 == (l * l - p.x - q.x) % P
       IN RefPt(x3, (l * (p.x - x3) - p.y) % P)

\* k*G as a sum of k copies of G, grouped in halves
RECURSIVE RefTimesG(_)
RefTimesG(k) ==
  IF k = 0 THEN RefInf
  ELSE IF k % 2 = 1
       THEN CHOOSE sum \in {RefAdd(prev, RefPt(GX, GY)) : prev \in {RefTimesG(k - 1)}} : TRUE
       ELSE CHOOSE sum \in {RefAdd(half, half) : half \in {RefTimesG(k \div 2)}} : TRUE

\* k |-> k*G
RefTable == [k \in 0..(N - 1) |-> RefTimesG(k)]

\* whether x is the x-coordinate of a curve point
RefLiftable(x) == \E k \in 1..(N - 1) : RefTable[k].x = x

\* the discrete logarithm of the point with x-coordinate x and even y
RefEvenLog(x) == CHOOSE k \in 1..(N - 1) : RefTable[k].x = x /\ RefTable[k].y % 2 = 0

\* BIP-340 acceptance of R for the signature's r
RefAccepts(R, r) == ~R.inf /\ R.y % 2 = 0 /\ R.x = r

\* BIP-340 verification: R = s*G - e*P in the group, e = 0 included
RefVerify(msg, r, s, pkX) ==
  /\ r < P
  /\ s < N
  /\ RefLiftable(pkX)
  /\ LET d == RefEvenLog(pkX)
         e == challengeBIP340(r, pkX, msg) % N
     IN RefAccepts(RefTable[(s - e * d) % N], r)

\* an honestly generated signature: P = d*G and R = k*G with even y,
\* s = k + e*d mod n
RefHonest(msg, r, s, pkX) ==
  /\ RefLiftable(pkX)
  /\ RefLiftable(r)
  /\ LET d == RefEvenLog(pkX)
         k == RefEvenLog(r)
         e == challengeBIP340(r, pkX, msg) % N
     IN s = (k + e * d) % N

\* ----------------------------------------------------- claims on verify
\* verify was called through its handler with arguments of the right lengths
VerifyCalled ==
  pc # "entrypoint" /\ Len(callData) = 5 /\ callData[1] = CMD_VERIFY
VMsg == callData[2]
VPk  == callData[3]
VR   == callData[4]
VS   == callData[5]
Accepted == pc = "done" /\ status = 0
Rejected == pc = "done" /\ status = 1

\* C1: verify returns true if and only if r < p, s < n, pkX lifts to an
\* even-y point P and s*G - e*P (group subtraction, e = 0 included) is not
\* Infinity, has even y and has x-coordinate r.
C1_VerifyIffBIP340 ==
  VerifyCalled => (Accepted <=> RefVerify(VMsg, VR, VS, VPk))

\* C2: verify accepts every honestly generated BIP-340 signature.
C2_HonestAccepted ==
  (VerifyCalled /\ RefHonest(VMsg, VR, VS, VPk)) => Accepted

\* s with its lowest bit flipped
FlipLowBit(s) == IF s % 2 = 0 THEN s + 1 ELSE s - 1

\* C3: if verify accepts r||s then it rejects r||s2 for s2 = s with its low
\* bit flipped and for every other s2 in [0, n): at most one s is accepted.
C3_AtMostOneS ==
  (VerifyCalled /\ Accepted) =>
    \A s2 \in (0..(N - 1)) \cup {FlipLowBit(VS)} :
      s2 # VS => ~verify(VMsg, <<VR, s2>>, <<VPk>>)

\* C4: verify returns false, without faulting, whenever r >= p or s >= n.
C4_OutOfRangeRejected ==
  (VerifyCalled /\ (VR >= P \/ VS >= N)) => Rejected

\* C4 witness: verify has rejected a signature whose s is out of range and
\* which would be a valid signature with s reduced mod n
C4_Witness ==
  /\ VerifyCalled
  /\ Rejected
  /\ VS >= N
  /\ RefVerify(VMsg, VR, VS % N, VPk)

\* ---------------------------------------------- claims on adaptorVerify
\* adaptorVerify was called through its handler with arguments of the
\* right lengths
AdaptorCalled ==
  pc # "entrypoint" /\ Len(callData) = 7 /\ callData[1] = CMD_ADAPTOR_VERIFY
AMsg == callData[2]
APk  == callData[3]
AR   == callData[4]
AS   == callData[5]
AT   == Affine(callData[6], callData[7])

\* C5: adaptorVerify with T = Infinity returns exactly the boolean verify
\* returns on the same msg, sig and pkX, signatures with s = 0 included.
C5_InfinityTweakIsVerify ==
  (AdaptorCalled /\ AT = Infinity) =>
    /\ pc = "done"
    /\ (status = 0) <=> verify(AMsg, <<AR, AS>>, <<APk>>)

\* the group element a pair accepted by isOnCurve stands for
RefOfAffine(T) == IF isInfinity(T) THEN RefInf ELSE RefPt(T.X % P, T.Y % P)

\* adaptor verification as specified: the challenge is bound to R + T, the
\* acceptance is that of R* = s'*G - e*P
RefAdaptorVerify(msg, r, s, pkX, T) ==
  /\ r < P
  /\ s < N
  /\ RefLiftable(pkX)
  /\ isOnCurve(T)
  /\ RefLiftable(r)
  /\ LET d  == RefEvenLog(pkX)
         Rp == RefAdd(RefTable[RefEvenLog(r)], RefOfAffine(T))
         e  == challengeBIP340(Rp.x, pkX, msg) % N
     IN RefAccepts(RefTable[(s - e * d) % N], r)

\* C6: adaptorVerify returns true if and only if r < p, s' < n, pkX lifts,
\* T satisfies isOnCurve, r lifts to R and, with e = Challenge((R+T).x, pkX,
\* msg) mod n, R* = s'*G - e*P is not Infinity, has even y and x = r.
C6_AdaptorIffSpecified ==
  AdaptorCalled => (Accepted <=> RefAdaptorVerify(AMsg, AR, AS, APk, AT))

\* -------------------------------------------------- claims on extract
\* extract was called on two 64-byte signatures
ExtractCalled ==
  /\ extractCall.called
  /\ Len(extractCall.sig) = 2
  /\ Len(extractCall.adaptorSig) = 2
ER1 == extractCall.sig[1]
ES  == extractCall.sig[2]
ER2 == extractCall.adaptorSig[1]
ESp == extractCall.adaptorSig[2]
ET  == extractCall.secret

\* C7 as claimed: for every pair of 64-byte inputs that share r, extract
\* returns t with (s' + t) mod n = s.
C7_Original ==
  (ExtractCalled /\ ER1 = ER2) => (ESp + ET) % N = ES

\* C7 as amended: for every pair of 64-byte inputs that share r, extract
\* returns t with (s' + t) mod n = s mod n, which is s when s < n.
C7_ExtractCongruent ==
  (ExtractCalled /\ ER1 = ER2) =>
    /\ (ESp + ET) % N = ES % N
    /\ ES < N => (ESp + ET) % N = ES

\* C7 witness: extract has run on a pair sharing r with s < s' < n
C7_Witness ==
  ExtractCalled /\ ER1 = ER2 /\ ES < ESp /\ ESp < N /\ ET = N - (ESp - ES)

\* C8: the value extract returns is a Scalar in [0, n) for every pair of
\* 64-byte inputs, those with s or s' >= n included.
C8_SecretInRange ==
  ExtractCalled => (0 <= ET /\ ET < N)

\* the handler of CMD_EXTRACT was called with 128 bytes of arguments
HandleExtractCalled ==
  pc # "entrypoint" /\ Len(callData) = 5 /\ callData[1] = CMD_EXTRACT

\* C9: extract returns the zero scalar whenever the r values differ or an
\* input is not 64 bytes long, and the CMD_EXTRACT handler then reports
\* success with 32 zero bytes when the lengths are right.
C9_MismatchGivesZero ==
  /\ (extractCall.called /\ ~ExtractCalled) => ET = 0
  /\ (ExtractCalled /\ ER1 # ER2) => ET = 0
  /\ (HandleExtractCalled /\ callData[2] # callData[4]) =>
       (pc = "done" /\ status = 0 /\ returnData = <<0>>)

\* C9 witness: the handler has answered a pair with different r and
\* different s
C9_Witness ==
  /\ HandleExtractCalled
  /\ callData[2] # callData[4]
  /\ callData[3] > callData[5]
  /\ status = 0
  /\ returnData = <<0>>

\* ------------------------------------------------ claims on the dispatcher
\* C10: no engine operation reachable from the dispatcher panics on inputs
\* of the correct byte lengths.
C10_NoFault == pc # "trap"

\* ------------------------------------------- claims on the group operations
\* a call of op has returned or panicked
DirectCalled(op) == direct.op = op /\ direct.calls >= 1

\* both coordinates are field elements
Reduced(p) == p.X \in 0..(P - 1) /\ p.Y \in 0..(P - 1)

\* C11: mul(P, k) leaves the caller's scalar k as it was, so a second call
\* mul(P, k) with the same object k returns the same point
C11_MulKeepsScalar ==
  DirectCalled("mul") =>
    /\ direct.kAfter = direct.k
    /\ direct.calls = 2 => direct.again = direct.result

\* C15: double(P) equals add(P, P) for every point P that isOnCurve accepts
\* (Infinity included) and for every P with y = 0
C15_DoubleIsAddSelf ==
  (DirectCalled("double") /\ (isOnCurve(direct.p1) \/ direct.p1.Y = 0)) =>
    direct.result = add(direct.p1, direct.p1)

\* C15: double was called on Infinity, on a pair with y = 0 and on G
C15_Witness ==
  /\ DirectCalled("double")
  /\ direct.p1 = Affine(GX, GY)
  /\ direct.result = add(direct.p1, direct.p1)
  /\ direct.result # Infinity

\* C16: add(P, Infinity) = P and add(Infinity, P) = P for every pair P
C16_InfinityIsIdentity ==
  DirectCalled("add") =>
    /\ isInfinity(direct.p2) => direct.result = direct.p1
    /\ isInfinity(direct.p1) => direct.result = direct.p2

\* C16: add(G, Infinity) returned G
C16_Witness ==
  /\ DirectCalled("add")
  /\ direct.p1 = Affine(GX, GY)
  /\ direct.p2 = Infinity
  /\ direct.result = Affine(GX, GY)

\* C17: add, double and mul on points of the curve with coordinates in
\* [0, p) return a point of the curve, for every scalar
C17_CurveClosed ==
  /\ (DirectCalled("add") /\ isOnCurve(direct.p1) /\ Reduced(direct.p1)
        /\ isOnCurve(direct.p2) /\ Reduced(direct.p2)) =>
       (direct.result # Fault /\ isOnCurve(direct.result))
  /\ ((DirectCalled("double") \/ DirectCalled("mul"))
        /\ isOnCurve(direct.p1) /\ Reduced(direct.p1)) =>
       (direct.result # Fault /\ isOnCurve(direct.result))

\* C17: mul(G, k) returned a point of the curve other than Infinity, for
\* a k in [1, n-1] with several bits set
C17_Witness ==
  /\ DirectCalled("mul")
  /\ direct.p1 = Affine(GX, GY)
  /\ direct.k = N - 1
  /\ isOnCurve(direct.result)
  /\ ~isInfinity(direct.result)

\* P added to the identity k times, in the reference group
RECURSIVE RefKFold(_, _)
RefKFold(p, k) ==
  IF k = 0 THEN RefInf
  ELSE CHOOSE sum \in {RefAdd(prev, p) : prev \in {RefKFold(p, k - 1)}} : TRUE

\* C18: mul(P, k) is the k-fold sum of P for every P that isOnCurve accepts
\* and every k >= 0: the same group element, with coordinates in [0, p)
\* when those of P are; mul(P, 0) is Infinity, and mul(G, 4) is
\* add(double(G), double(G))
C18_MulIsKFoldSum ==
  DirectCalled("mul") =>
    /\ direct.k = 0 => direct.result = Infinity
    /\ isOnCurve(direct.p1) =>
         /\ direct.result # Fault
         /\ RefOfAffine(direct.result) = RefKFold(RefOfAffine(direct.p1), direct.k)
         /\ Reduced(direct.p1) => Reduced(direct.result)
    /\ (direct.p1 = Affine(GX, GY) /\ direct.k = 4) =>
         direct.result = add(double(direct.p1), double(direct.p1))

\* C18: mul(G, 4) returned 2G + 2G
C18_Witness ==
  /\ DirectCalled("mul")
  /\ direct.p1 = Affine(GX, GY)
  /\ direct.k = 4
  /\ direct.result = add(double(Affine(GX, GY)), double(Affine(GX, GY)))
  /\ ~isInfinity(direct.result)

\* ------------------------------------------------- claims on liftXEvenY
\* y^2 = x^3 + 7 (mod p)
OnCurveEquation(x, y) == (y * y) % P = (x * x * x + 7) % P

\* C19: for every point (x, y) of the curve with 0 <= x, y < p and y even,
\* liftXEvenY(x) succeeds and returns (x, y)
C19_LiftReturnsEvenPoint ==
  DirectCalled("liftXEvenY") =>
    \A y \in 0..(P - 1) :
      (direct.x < P /\ y % 2 = 0 /\ OnCurveEquation(direct.x, y)) =>
        (~direct.err /\ direct.result = Affine(direct.x, y))

\* C19: liftXEvenY(GX) returned (GX, GY)
C19_Witness ==
  /\ DirectCalled("liftXEvenY")
  /\ direct.x = GX
  /\ ~direct.err
  /\ direct.result = Affine(GX, GY)

\* C20: a point liftXEvenY returns has X = x, is on the curve, has an even
\* Y in [0, p) and is not the pair (0, 0)
C20_LiftedPointSound ==
  (DirectCalled("liftXEvenY") /\ ~direct.err) =>
    /\ direct.result.X = direct.x
    /\ OnCurveEquation(direct.result.X, direct.result.Y)
    /\ direct.result.Y % 2 = 0
    /\ direct.result.Y \in 0..(P - 1)
    /\ ~isInfinity(direct.result)

\* C20: liftXEvenY succeeded on an x whose computed root was odd
C20_Witness ==
  /\ DirectCalled("liftXEvenY")
  /\ ~direct.err
  /\ Exp((direct.x * direct.x * direct.x + B) % P, SQRT_EXP, P) % 2 = 1
  /\ direct.result.Y % 2 = 0

\* ------------------------------------------ claims on the shared state
\* what the call returns when it is the first call of a fresh process
Alone(call) ==
  IF call.fn = "verify"
  THEN verifyRun(call.args[1], call.args[2], <<call.args[3]>>)
  ELSE IF call.fn = "adaptorVerify"
  THEN adaptorVerifyRun(call.args[1], call.args[2], <<call.args[3]>>, call.args[4])
  ELSE IF call.fn = "extract"
  THEN extract(call.args[1], call.args[2])
  ELSE challengeBIP340(call.args[1], call.args[2], call.args[3])

\* C12: verify, adaptorVerify, extract and challengeBIP340 return, for the
\* same inputs, the same result whatever was called before: the result of
\* the call made first in a fresh process
C12_HistoryIndependent ==
  /\ \A i \in DOMAIN history : history[i].out = Alone(history[i])
  /\ \A i \in DOMAIN history, j \in DOMAIN history :
       (history[i].fn = history[j].fn /\ history[i].args = history[j].args) =>
         history[i].out = history[j].out

\* C12: verify was called twice with the same inputs, the second time after
\* a call that ran both calls of mul, and accepted both times
C12_Witness ==
  /\ Len(history) = 2
  /\ history[1].fn = "verify"
  /\ history[2].fn = "verify"
  /\ history[1].args = history[2].args
  /\ history[1].out = [ret |-> TRUE, fault |-> FALSE]
  /\ history[2].out = [ret |-> TRUE, fault |-> FALSE]


\* C13: under every interleaving of the threads' calls, each call returns
\* what it returns when it runs alone
C13_InterleavingKeepsResults ==
  \A t \in Threads :
    threads[t].phase = "done" => threads[t].out = Alone(threads[t].call)

\* C13: two verify calls ran their loops interleaved and both accepted
C13_Witness ==
  \A t \in Threads :
    /\ threads[t].phase = "done"
    /\ threads[t].call.fn = "verify"
    /\ threads[t].overlap
    /\ threads[t].out = [ret |-> TRUE, fault |-> FALSE]

\* C14: no handler changes the value of P, N, B, GX, GY or SQRT_EXP
C14_ConstantsUnchanged == globals = Globals0

\* C14: verify ran both calls of mul, the first with s = 1, whose result
\* add(Infinity, G) shares its coordinates with GX and GY
C14_Witness ==
  /\ pc = "done"
  /\ Len(callData) = 5
  /\ callData[1] = CMD_VERIFY
  /\ callData[5] = 1
  /\ callData[4] < P
  /\ ~liftXEvenY(callData[3]).err
  /\ mul(Affine(GX, GY), callData[5]) = Affine(GX, GY)
  /\ globals = Globals0

\* ------------------------------------------------ claims on liftXEvenY
\* c is a quadratic non-residue mod p: no field element squares to it
NonResidue(c) == \A y \in 0..(P - 1) : (y * y) % P # c

\* C21: liftXEvenY(x) fails with the lift error exactly when x >= p or
\* x^3 + 7 mod p is a quadratic non-residue, and succeeds for every other x
C21_LiftFailsIff ==
  DirectCalled("liftXEvenY") =>
    (direct.err <=>
       (direct.x >= P \/ NonResidue((direct.x * direct.x * direct.x + 7) % P)))

\* C21: liftXEvenY refused an x >= p whose residue mod p is the x of a point
C21_Witness ==
  /\ DirectCalled("liftXEvenY")
  /\ direct.err
  /\ direct.x >= P
  /\ ~NonResidue((direct.x * direct.x * direct.x + 7) % P)

\* ------------------------------------- claims on the points of verify
\* C22: every point value that verify computes or passes to add and mul
\* (the negation of e*P included) has both coordinates in [0, p), and the
\* negation of Infinity is Infinity
C22_PointsReduced ==
  VerifyCalled =>
    \A i \in DOMAIN verifyPoints(VMsg, <<VR, VS>>, <<VPk>>) :
      LET pts == verifyPoints(VMsg, <<VR, VS>>, <<VPk>>)
      IN /\ Reduced(pts[i])
         /\ (i > 1 /\ isInfinity(pts[i - 1]) /\ pts[i] = negate(pts[i - 1]))
              => isInfinity(pts[i])

\* --------------------------------------------- claims on the loop of mul
\* the number of bits of k
RECURSIVE BitLen(_)
BitLen(k) == IF k = 0 THEN 0 ELSE 1 + BitLen(k \div 2)

C24_LoadReturnsLastStore ==
  api.op = "StorageLoad" =>
    api.loaded = (IF api.key \in DOMAIN api.written
                  THEN api.written[api.key] ELSE ZeroWord)

\* C24: a key that was stored twice, the zero word first, loads as the value
\* stored last while another key holds a different value
C24_Witness ==
  /\ api.op = "StorageLoad"
  /\ api.loaded = WordOf(<<10, 20, 30, 40, 50>>)
  /\ \E k \in DOMAIN api.written :
       k # api.key /\ api.written[k] = WordFromUint64(1)

\* ---------------------------------------- claims on the word conversions
\* the low 32 bytes of a big integer of more than 32 bytes, as a big integer
LowBytes(b) ==
  LET low == [i \in 1..WordLen |-> b[Len(b) - WordLen + i]]
      significant == {i \in 1..WordLen : low[i] # 0}
  IN IF significant = {} THEN <<>>
     ELSE LET first == CHOOSE i \in significant : \A j \in significant : i <= j
          IN [i \in 1..(WordLen - first + 1) |-> low[first + i - 1]]

\* C25: Uint64FromWord(WordFromUint64(v)) = v, AddressFromWord(PadAddress(a))
\* = a, and BigIntFromWord(WordFromBigInt(b)) = b for 0 <= b < 2^256; of a
\* b >= 2^256 the low 32 bytes come back
C25_ConversionsRoundTrip ==
  /\ api.op = "Uint64" => api.ret = api.arg
  /\ api.op = "Address" => api.ret = api.arg
  /\ api.op = "BigInt" =>
       api.ret = (IF Len(api.arg) <= WordLen THEN api.arg ELSE LowBytes(api.arg))

\* C25: a big integer above 2^256 came back as its low 32 bytes, which are
\* not zero
C25_Witness ==
  /\ api.op = "BigInt"
  /\ Len(api.arg) > WordLen
  /\ api.ret # api.arg
  /\ api.ret # <<>>

\* ------------------------------------ claims on call data and return data
\* the runtime's Result as a byte slice: nil is the empty slice
ResultBytes == IF returnData = NoData THEN <<>> ELSE returnData

\* C26: after SetReturnData(d) returns nil the runtime's Result equals d,
\* the empty d included, and GetCallData returns exactly the runtime's Args
C26_ResultAndArgs ==
  /\ (api.op = "SetReturnData" /\ api.err = "nil") => ResultBytes = api.data
  /\ api.op = "GetCallData" =>
       (pc = "done" /\ api.err = "nil" /\ api.got = callData)

\* ------------------------------------------------------ claims on events
\* C27: EmitEvent appends exactly one entry to Logs when it is called with
\* at most 4 topics and data within MaxCallDataSize; with more topics or
\* longer data it returns an error and appends nothing
C27_EmitAppendsOne ==
  api.op = "EmitEvent" =>
    IF Len(api.topics) <= 4 /\ Len(api.data) <= MaxCallDataSize
    THEN /\ api.err = "nil"
         /\ Len(logs) = Len(api.logsBefore) + 1
         /\ SubSeq(logs, 1, Len(api.logsBefore)) = api.logsBefore
    ELSE /\ api.err # "nil"
         /\ logs = api.logsBefore

\* C27: an event with four topics and no data was appended to Logs that
\* held an entry already
C27_Witness ==
  /\ api.op = "EmitEvent"
  /\ Len(api.topics) = 4
  /\ api.data = <<>>
  /\ api.err = "nil"
  /\ Len(api.logsBefore) = 1
  /\ Len(logs) = 2

\* ----------------------------------------- claims on the counter contract
\* the entrypoint of the counter was called last
CounterCalled == api.op = "counter"

\* the call changes the state: its command is INCREMENT, DECREMENT or RESET
StateChanging == commandOf(callData) \in {1, 2, 3}

\* C28: starting from empty storage, after any sequence of calls the
\* entrypoint returns 0, and the 4-byte big-endian return value and the
\* stored counter equal the reference counter
C28_CounterMatchesReference ==
  CounterCalled =>
    /\ pc = "done"
    /\ status = 0
    /\ Len(returnData) = 4
    /\ (returnData[1] * 256 + returnData[2]) * 65536
         + returnData[3] * 256 + returnData[4] = api.expected
    /\ getCounter(storage) = api.expected

ActionName ==
  IF commandOf(callData) = 1 THEN IncrementText
  ELSE IF commandOf(callData) = 2 THEN DecrementText
  ELSE ResetText

\* C30: the log entry recorded for a state-changing command is exactly the
\* 36-byte event payload: the action name in the first 32 bytes, followed by
\* the new counter value as a 4-byte big-endian integer
C30_LogEntryIsPayload ==
  (CounterCalled /\ pc = "done" /\ status = 0 /\ StateChanging) =>
    LET entry == logs[Len(logs)]
    IN /\ Len(entry) = 36
       /\ \A i \in 1..32 :
            entry[i] = (IF i <= Len(ActionName) THEN ActionName[i] ELSE 0)
       /\ \A i \in 33..35 : entry[i] = 0
       /\ entry[36] = getCounter(storage)

\* ------------------------------------------- claims on add and inverses
\* P is a point of the curve other than Infinity with coordinates in [0, p)
CurvePoint(pt) == isOnCurve(pt) /\ Reduced(pt) /\ ~isInfinity(pt)

\* C34: for every point P of the curve other than Infinity, with coordinates
\* in [0, p), add(P, (P.x, p - P.y)) and add((P.x, p - P.y), P) return
\* Infinity
C34_AddInverseIsInfinity ==
  DirectCalled("add") =>
    /\ (CurvePoint(direct.p1) /\ direct.p2 = Affine(direct.p1.X, P - direct.p1.Y))
         => direct.result = Infinity
    /\ (CurvePoint(direct.p2) /\ direct.p1 = Affine(direct.p2.X, P - direct.p2.Y))
         => direct.result = Infinity

\* C34: add(G, (GX, p - GY)) returned Infinity
C34_Witness ==
  /\ DirectCalled("add")
  /\ direct.p1 = Affine(GX, GY)
  /\ direct.p2 = Affine(GX, P - GY)
  /\ direct.result = Infinity

\* C35: add(P, Q) = add(Q, P) for all points P and Q of the curve with
\* coordinates in [0, p): Infinity, equal points and inverse points included
C35_AddCommutes ==
  (DirectCalled("add") /\ isOnCurve(direct.p1) /\ Reduced(direct.p1)
     /\ isOnCurve(direct.p2) /\ Reduced(direct.p2)) =>
    /\ direct.result # Fault
    /\ direct.result = add(direct.p2, direct.p1)

\* C35: add(G, 2G) returned the point that add(2G, G) returns, by a chord
C35_Witness ==
  /\ DirectCalled("add")
  /\ direct.p1 = Affine(GX, GY)
  /\ direct.p2 = double(Affine(GX, GY))
  /\ direct.result = add(direct.p2, direct.p1)
  /\ CurvePoint(direct.result)

\* =========================================================================
\* ERC20
\* =========================================================================
\* the last call was a transfer or transferFrom that returned nil
TokenMoved == api.op \in {"transfer", "transferFrom"} /\ api.err = "nil"

\* the sum of the balances held in store
RECURSIVE SumBalances(_, _)
SumBalances(store, holders) ==
  IF holders = {} THEN 0
  ELSE Only({getBalance(store, a) + SumBalances(store, holders \ {a}) :
             a \in {CHOOSE h \in holders : TRUE}})

\* C31: a successful transfer or transferFrom takes amount from the source
\* balance and adds it to the destination balance (net zero when they are
\* the same), leaves every other balance alone, and no operation changes the
\* sum of all balances
C31_TransfersConserveBalances ==
  /\ TokenMoved =>
       \A a \in TokenHolders :
         getBalance(storage, a) =
           getBalance(api.store, a)
             - (IF a = api.arg.from THEN api.arg.amount ELSE 0)
             + (IF a = api.arg.to THEN api.arg.amount ELSE 0)
  /\ api.op \in {"setCaller", "transfer", "approve", "transferFrom"} =>
       SumBalances(storage, TokenHolders) = SumBalances(api.store, TokenHolders)

\* a transferFrom moved tokens between two addresses while a third held some
C31_Witness ==
  /\ api.op = "transferFrom"
  /\ api.err = "nil"
  /\ api.arg.amount > 0
  /\ api.arg.from # api.arg.to
  /\ \E a \in TokenAddresses \ {api.arg.from, api.arg.to} :
       getBalance(storage, a) > 0

\* C32: transferFrom succeeds only with allowance(from, caller) >= amount
\* and balance(from) >= amount, it takes exactly amount off the allowance,
\* and what a spender moved since the last approve is at most what was
\* approved
C32_TransferFromWithinAllowance ==
  /\ (api.op = "transferFrom" /\ api.err = "nil") =>
       /\ getAllowance(api.store, api.arg.from, api.arg.caller) >= api.arg.amount
       /\ getBalance(api.store, api.arg.from) >= api.arg.amount
       /\ getAllowance(storage, api.arg.from, api.arg.caller) =
            getAllowance(api.store, api.arg.from, api.arg.caller) - api.arg.amount
  /\ \A pair \in DOMAIN api.grants :
       api.grants[pair].moved <= api.grants[pair].approved

\* the spender has moved, in more than one transferFrom, all that the owner
\* approved
C32_Witness ==
  /\ api.op = "transferFrom"
  /\ api.err = "nil"
  /\ api.arg.amount > 0
  /\ api.arg.from # api.arg.caller
  /\ <<api.arg.from, api.arg.caller>> \in DOMAIN api.grants
  /\ api.grants[<<api.arg.from, api.arg.caller>>].moved =
       api.grants[<<api.arg.from, api.arg.caller>>].approved
  /\ api.grants[<<api.arg.from, api.arg.caller>>].moved > api.arg.amount

\* C36: a transfer or transferFrom that returns an error has written no
\* storage slot
C36_FailedTransferWritesNothing ==
  (api.op \in {"transfer", "transferFrom"} /\ api.err # "nil") =>
    storage = api.store

\* a transferFrom failed for its balance although the allowance sufficed
C36_Witness ==
  /\ api.op = "transferFrom"
  /\ api.err = "insufficient balance"
  /\ getBalance(storage, api.arg.from) > 0
  /\ getAllowance(storage, api.arg.from, api.arg.caller) >= api.arg.amount

\* =========================================================================
\* NFT
\* =========================================================================
\* the owner of a token id
ownerOf(store, tokenId) == AddressFromWord(StorageLoad(store, getOwnerKey(tokenId)))

\* the last call was a TRANSFER or TRANSFER_FROM that returned 0
NftMoved ==
  /\ api.op = "nft"
  /\ pc = "done"
  /\ status = 0
  /\ callData[1] \in {NFT_CMD_TRANSFER, NFT_CMD_TRANSFER_FROM}

\* C37: the token ids with a non-zero owner are never more than totalSupply,
\* and no transfer decrements a balance that is 0
C37_TokensOnlyByMint ==
  /\ Cardinality({id \in 0..(Uint64Mod - 1) :
                    ownerOf(storage, id) # ZeroBytes(AddressLen)})
       <= totalSupplyOf(storage)
  /\ NftMoved => api.before > 0

\* =========================================================================
\* Multisig
\* =========================================================================
\* the last call was an INITIALIZE that returned 0
Initialized ==
  /\ api.op = "multisig"
  /\ pc = "done"
  /\ status = 0
  /\ callData[1] = MULTISIG_CMD_INITIALIZE

\* C38: after a successful INITIALIZE(threshold, owners), isOwner(a) is true
\* exactly for the addresses a in the owners list that was supplied
C38_OwnersAreTheListed ==
  Initialized =>
    \A a \in OwnerSample : isOwner(storage, a) <=> a \in ownersOf(callData)

\* =========================================================================
\* Voting
\* =========================================================================
\* the last call was a CREATE_PROPOSAL that returned 0
Created ==
  /\ api.op = "voting"
  /\ pc = "done"
  /\ status = 0
  /\ callData[1] = VOTING_CMD_CREATE_PROPOSAL

====
